---- MODULE Spec2Model ----
(***************************************************************************)
(* Adaptive Memory for OpenClaw: the consent-gated lifecycle state machine *)
(* (hooks/adaptive-memory/handler.js + hook.js) and the mtime chunk cache  *)
(* of the search module (search.js).                                       *)
(*                                                                         *)
(* Conventions                                                             *)
(*  - time is counted in hours (Date.now() / 3 600 000); the UTC day of    *)
(*    new Date().toISOString().slice(0, 10) is  now \div 24.               *)
(*  - a user message is the sequence of its lower-cased words; a regular   *)
(*    expression  /\b(p1|p2|...)\b/  is a contiguous occurrence of one of  *)
(*    the phrases p1, p2, ... in that sequence.                            *)
(*  - the core document is the sequence of its lines, a line being its     *)
(*    kind ("h" heading/bullet/numbered, "t" other text, "b" blank) and    *)
(*    its length in bytes; cnt consecutive lines of one kind and length    *)
(*    are written as one run.  The dated document is the sequence of its   *)
(*    parts (user text, injection section, startup digest, maintenance     *)
(*    notice).  An absent file and an empty file are both << >>, as in     *)
(*    readFileIfExists.                                                    *)
(***************************************************************************)
EXTENDS Integers, Sequences, FiniteSets, TLC

(***************************************************************************)
(* Bounds of the model                                                     *)
(***************************************************************************)
MaxTicks == 1
TickHours == 24
MaxArchive == 1
MaxUserParts == 1
MaxFound == 1
MaxChunks == 6
MaxQueryWords == 4
MaxParas == 3
MaxClock == 4
MaxMtime == 3
MaxInode == 6
MaxStamp == 2
MaxParts == 4

(***************************************************************************)
(* Program constants                                                       *)
(***************************************************************************)
SNOOZE_HOURS == 24
DIGEST_LIMIT == 8000
DIGEST_SESSIONS == 8
DIGEST_FRAME == 200
DIGEST_MAX_BODY == 6400
DAILY_BYTES == 8000
MEMORY_BYTES == 12000
SUMMARY_MAX_LINES == 120
FALLBACK_CHARS == 1800
MARKER_MAX_LEN == 128
SEARCH_TOP_K == 3

Min(a, b) == IF a < b THEN a ELSE b
Max(a, b) == IF a > b THEN a ELSE b

RECURSIVE SumLen(_)
SumLen(s) == IF s = << >> THEN 0 ELSE Head(s).len * Head(s).cnt + SumLen(Tail(s))

RECURSIVE SumCnt(_)
SumCnt(s) == IF s = << >> THEN 0 ELSE Head(s).cnt + SumCnt(Tail(s))

\* The elements of s whose kind is in keep, in order.
SelectSeq2(s, keep) ==
  LET Keep(x) == x.k \in keep IN SelectSeq(s, Keep)

(***************************************************************************)
(* Messages and the consent / decline patterns                             *)
(***************************************************************************)
NoMsg == << >>

ContainsPhrase(msg, p) ==
  \E i \in 1..Len(msg) :
    /\ i + Len(p) - 1 <= Len(msg)
    /\ SubSeq(msg, i, i + Len(p) - 1) = p

MatchesAny(msg, phrases) == \E p \in phrases : ContainsPhrase(msg, p)

YesPhrases ==
  { <<"yes">>, <<"yep">>, <<"yeah">>, <<"please">>, <<"go", "ahead">>,
    <<"do", "it">>, <<"proceed">>, <<"ok">>, <<"okay">> }
ActionPhrases ==
  { <<"optimize">>, <<"optimise">>, <<"compact">>, <<"prune">>,
    <<"clean", "up">>, <<"reduce">>, <<"shrink">> }
TargetPhrases ==
  { <<"memory">>, <<"memories">>, <<"memory", "files">>,
    <<"core", "memory", "files">> }
SafePhrases ==
  { <<"without", "losing">>, <<"lossless">>, <<"keep", "all">>,
    <<"do", "not", "lose">> }
NegationPhrases ==
  { <<"no">>, <<"not", "now">>, <<"later">>, <<"skip">>, <<"cancel">>,
    <<"don't">>, <<"do", "not">> }
DeclineTermPhrases ==
  { <<"optimize">>, <<"optimise">>, <<"compact">>, <<"prune">>, <<"memory">> }

isExplicitMemoryOptimizationConsent(msg) ==
  LET yes    == MatchesAny(msg, YesPhrases)
      action == MatchesAny(msg, ActionPhrases)
      target == MatchesAny(msg, TargetPhrases)
      safe   == MatchesAny(msg, SafePhrases)
  IN  /\ msg # NoMsg
      /\ (yes /\ action /\ target) \/ (action /\ target /\ safe)

isExplicitMemoryOptimizationDeclineAnyNegation(msg) ==
  /\ msg # NoMsg
  /\ MatchesAny(msg, NegationPhrases)

isExplicitMemoryOptimizationDecline(msg) ==
  /\ msg # NoMsg
  /\ MatchesAny(msg, NegationPhrases)
  /\ MatchesAny(msg, DeclineTermPhrases)

MsgConsentSpec == <<"yes", "optimize", "memory", "files", "without", "losing", "anything">>
MsgDeclineSpec == <<"no", "not", "now">>
MsgDeclineTest == <<"no", "do", "not", "optimize", "memory", "now">>
MsgPoliteDecline == <<"please", "do", "not", "optimize", "memory">>

Messages == { MsgConsentSpec, MsgDeclineSpec, MsgDeclineTest, MsgPoliteDecline }

(***************************************************************************)
(* Session keys and the injection marker                                   *)
(***************************************************************************)
SafeChars == { "a", "b", ".", "_", "-" }

RECURSIVE CollapseDashes(_)
CollapseDashes(s) ==
  IF Len(s) < 2 THEN s
  ELSE IF s[1] = "-" /\ s[2] = "-" THEN CollapseDashes(Tail(s))
       ELSE <<s[1]>> \o CollapseDashes(Tail(s))

escapeMarker(key) ==
  LET safe == [i \in 1..Len(key) |-> IF key[i] \in SafeChars THEN key[i] ELSE "_"]
      coll == CollapseDashes(safe)
  IN  SubSeq(coll, 1, Min(Len(coll), MARKER_MAX_LEN))

SessionKeys == { <<"a">>, <<"a", " ", "b">>, <<"a", "_", "b">> }

(***************************************************************************)
(* Documents                                                               *)
(***************************************************************************)
Lines(k, n, c) == [k |-> k, len |-> n, cnt |-> c]
Line(k, n) == Lines(k, n, 1)

\* Adjacent runs of the same kind and length are one run.
RECURSIVE Canon(_)
Canon(doc) ==
  IF Len(doc) < 2 THEN doc
  ELSE IF doc[1].k = doc[2].k /\ doc[1].len = doc[2].len
       THEN Canon(<<Lines(doc[1].k, doc[1].len, doc[1].cnt + doc[2].cnt)>>
                    \o Tail(Tail(doc)))
       ELSE <<doc[1]>> \o Canon(Tail(doc))

\* The first n lines of doc.
RECURSIVE FirstN(_, _)
FirstN(doc, n) ==
  IF doc = << >> \/ n <= 0 THEN << >>
  ELSE IF Head(doc).cnt <= n
       THEN <<Head(doc)>> \o FirstN(Tail(doc), n - Head(doc).cnt)
       ELSE << Lines(Head(doc).k, Head(doc).len, n) >>

Bytes(doc) == IF doc = << >> THEN 0 ELSE SumLen(doc) + (SumCnt(doc) - 1)

\* marker is the session marker a section starts with, session the key
\* written in its "Loaded at ... | session: ..." line.
UserPart(n)  ==
  [k |-> "user", len |-> n, cnt |-> 1, marker |-> << >>, session |-> << >>, n |-> 0]
MaintPart    ==
  [k |-> "maint", len |-> 560, cnt |-> 1, marker |-> << >>, session |-> << >>, n |-> 0]
DigestPart(n) ==
  [k |-> "digest", len |-> 400, cnt |-> 1, marker |-> << >>, session |-> << >>, n |-> n]
InjPart(key, n) ==
  [k |-> "inj", len |-> 200 + 550 * n, cnt |-> 1, marker |-> escapeMarker(key),
   session |-> key, n |-> n]

DailyBytes(doc) == IF doc = << >> THEN 0 ELSE SumLen(doc) + 2 * (Len(doc) - 1)

HasKind(doc, kind) == \E i \in 1..Len(doc) : doc[i].k = kind
HasMarkerNever(doc, m) == FALSE

HasMarker(doc, m) == \E i \in 1..Len(doc) : doc[i].k = "inj" /\ doc[i].marker = m

\* Core documents offered to the user's editor.
CoreSmall   == << Line("h", 10), Line("t", 50) >>
CoreBullets == << Lines("h", 100, 130) >>
CoreProse   == << Line("t", 7000), Line("b", 0), Line("t", 7000) >>
CoreSamples == { CoreBullets, CoreProse }

UserSizes == { 9000 }

\* User text just under the dated document's threshold: with two injection
\* sections the document is over it, with their digest it is not.
BloatUserSizes == { 7300, 9000 }

(***************************************************************************)
(* hook.js: compaction of the core document                                *)
(***************************************************************************)
FlatLen(raw) ==
  LET nb == SelectSeq2(raw, {"h", "t"})
  IN  IF nb = << >> THEN 0 ELSE SumLen(nb) + (SumCnt(nb) - 1)

buildCompactMemorySummaryUncapped(raw) ==
  LET selected == SelectSeq2(raw, {"h"})
      fallback == Min(FlatLen(raw), FALLBACK_CHARS)
  IN  IF selected = << >>
      THEN IF fallback > 0 THEN << Line("t", fallback) >> ELSE << Line("t", 29) >>
      ELSE selected

buildCompactMemorySummary(raw) ==
  LET selected == FirstN(SelectSeq2(raw, {"h"}), SUMMARY_MAX_LINES)
      fallback == Min(FlatLen(raw), FALLBACK_CHARS)
  IN  IF selected = << >>
      THEN IF fallback > 0 THEN << Line("t", fallback) >> ELSE << Line("t", 29) >>
      ELSE selected

CompactHeader ==
  << Line("h", 23), Line("b", 0), Line("t", 68), Line("t", 107), Line("b", 0),
     Line("h", 17) >>
CompactTrailer == << Line("b", 0), Line("h", 8), Line("h", 58) >>

CompactCore(raw) ==
  Canon(CompactHeader \o buildCompactMemorySummary(raw) \o CompactTrailer)

(***************************************************************************)
(* hook.js: sections of the dated document                                 *)
(***************************************************************************)
RECURSIVE RemoveFirstKind(_, _)
RemoveFirstKind(doc, kind) ==
  IF doc = << >> THEN << >>
  ELSE IF Head(doc).k = kind THEN Tail(doc)
       ELSE <<Head(doc)>> \o RemoveFirstKind(Tail(doc), kind)

stripPriorDigestKeep(doc) == doc

stripPriorDigest(doc) == RemoveFirstKind(doc, "digest")

stripMaintenancePrompt(doc) == SelectSeq2(doc, {"user", "inj", "digest"})

stripAdaptiveSections(doc) ==
  [ stripped |-> SelectSeq2(doc, {"user", "digest", "maint"}),
    sections |-> SelectSeq2(doc, {"inj"}) ]

buildStartupDigestFromSections(sections) == DigestPart(Len(sections))

\* compactDailyMemoryForStartup: the document it leaves on disk.
compactDailyMemoryForStartup(doc) ==
  LET withoutDigest == stripMaintenancePrompt(stripPriorDigest(doc))
      r == stripAdaptiveSections(withoutDigest)
  IN  IF doc = << >> THEN doc
      ELSE IF r.sections = << >> THEN doc
      ELSE Append(r.stripped, buildStartupDigestFromSections(r.sections))

clearMaintenancePromptFromDaily(doc) ==
  IF doc = << >> \/ ~HasKind(doc, "maint") THEN doc ELSE stripMaintenancePrompt(doc)

(***************************************************************************)
(* hook.js: bloat signals and the optimization action                      *)
(***************************************************************************)
getMemoryMaintenanceSignalsDailyOnly(c, d) ==
  [ dailyBloated  |-> DailyBytes(d) > DAILY_BYTES,
    memoryBloated |-> FALSE,
    anyBloated    |-> DailyBytes(d) > DAILY_BYTES ]

getMemoryMaintenanceSignals(c, d) ==
  [ dailyBloated  |-> DailyBytes(d) > DAILY_BYTES,
    memoryBloated |-> Bytes(c) > MEMORY_BYTES,
    anyBloated    |-> DailyBytes(d) > DAILY_BYTES \/ Bytes(c) > MEMORY_BYTES ]

SnapshotOfSummary(type, content) ==
  [type |-> type, content |-> FirstN(content, SUMMARY_MAX_LINES)]

Snapshot(type, content) == [type |-> type, content |-> content]

\* optimizeCoreMemoryFiles on core document c, dated document d and archive a.
\* fail names the file operation that raises, if the run gets to it.
\* steps lists the file operations completed, in order.
optimizeCoreMemoryFiles(c, d, a, fail) ==
  LET sig == getMemoryMaintenanceSignals(c, d)
      s0  == [core |-> c, daily |-> d, archive |-> a, threw |-> FALSE,
              steps |-> << >>]
      \* core document
      s1  == IF ~sig.memoryBloated THEN s0
             ELSE IF fail = "coreArchive" THEN [s0 EXCEPT !.threw = TRUE]
             ELSE LET arch == [s0 EXCEPT !.archive = Append(a, Snapshot("MEMORY", c)),
                                         !.steps = Append(@, "archiveCore")]
                  IN  IF fail = "coreWrite" THEN [arch EXCEPT !.threw = TRUE]
                      ELSE [arch EXCEPT !.core = CompactCore(c),
                                        !.steps = Append(@, "rewriteCore")]
      \* dated document
      s2  == IF s1.threw \/ ~sig.dailyBloated THEN s1
             ELSE IF fail = "dailyArchive" THEN [s1 EXCEPT !.threw = TRUE]
             ELSE LET arch == [s1 EXCEPT !.archive = Append(@, Snapshot("daily", d)),
                                         !.steps = Append(@, "archiveDaily")]
                  IN  IF fail = "dailyWrite" THEN [arch EXCEPT !.threw = TRUE]
                      ELSE [arch EXCEPT !.daily = compactDailyMemoryForStartup(d),
                                        !.steps = Append(@, "compactDaily")]
  IN  IF ~sig.anyBloated THEN s0 ELSE s2

(***************************************************************************)
(* search.js: queries, chunking and scoring                                *)
(*                                                                         *)
(* A query is the sequence of its lower-cased, cleaned words.  A document  *)
(* text is the sequence of its paragraphs (separated by blank lines), a    *)
(* paragraph being whether it starts with a heading marker, its length in  *)
(* characters and the number of whole-word occurrences of each word of     *)
(* Words in it.  Scores are in units of 1/10000.                           *)
(***************************************************************************)
MAX_CHUNK_LEN == 1200
MAX_CHUNKS_PER_FILE == 200
MAX_CACHE_FILES == 500
MAX_CACHE_JSON_BYTES == 10485760
MIN_QUERY_LEN == 3
MIN_SCORE == 5000
MAX_RESULTS == 10

STOP_WORDS ==
  { "the", "and", "for", "are", "but", "not", "you", "all", "can", "had",
    "her", "was", "one", "our", "out", "has", "have", "been", "some", "them",
    "than", "its", "over", "into", "just", "about", "what", "which", "when",
    "make", "like", "how", "each", "from", "this", "that", "with", "they",
    "will", "would", "there", "their", "could", "other", "more", "very",
    "after", "most", "also", "made", "then", "many", "before", "should",
    "these", "where", "being", "does", "show", "tell", "give", "help",
    "remind", "please" }

Words == { "deploy", "server", "backup", "nightly" }
NoWords == [x \in Words |-> 0]

RECURSIVE QueryLength(_)
QueryLength(q) ==
  IF q = << >> THEN 0
  ELSE Len(Head(q)) + (IF Len(q) > 1 THEN 1 ELSE 0) + QueryLength(Tail(q))

extractKeywords(query) ==
  LET Keep(w) == Len(w) > 2 /\ w \notin STOP_WORDS IN SelectSeq(query, Keep)

Queries == { <<"hi">>, <<"what", "about", "this">>, <<"deploy">> }

Para(h, n, w) == [h |-> h, len |-> n, w |-> w, blank |-> FALSE]

\* A paragraph of n characters of whitespace.
BlankPara(n) == [h |-> FALSE, len |-> n, w |-> NoWords, blank |-> TRUE]

\* The blocks of content.split(/\n(?=#+\s)/g): a new block starts at every
\* heading but the first paragraph.
Blocks(text) ==
  LET starts == { i \in 1..Len(text) : i = 1 \/ text[i].h }
      Nth(k) == CHOOSE i \in starts : Cardinality({ j \in starts : j <= i }) = k
      End(k) == IF k = Cardinality(starts) THEN Len(text) ELSE Nth(k + 1) - 1
  IN  [k \in 1..Cardinality(starts) |-> SubSeq(text, Nth(k), End(k))]

\* buf: n paragraphs joined by blank lines, k of them not blank, len
\* characters, the first lead and the last trail of them whitespace (blank
\* paragraphs with their separators, and the newline a block keeps before
\* the next heading).
EmptyBuf == [n |-> 0, k |-> 0, len |-> 0, lead |-> 0, trail |-> 0, w |-> NoWords]

Join(buf, para, nl) ==
  LET len == IF buf.n = 0 THEN para.len + nl ELSE buf.len + 2 + para.len + nl
  IN  [n |-> buf.n + 1,
       k |-> buf.k + (IF para.blank THEN 0 ELSE 1),
       len |-> len,
       lead |-> IF buf.k > 0 THEN buf.lead
                ELSE IF para.blank THEN len
                ELSE len - para.len - nl,
       trail |-> IF para.blank THEN (IF buf.k > 0 THEN buf.trail + 2 + para.len + nl ELSE len)
                 ELSE nl,
       w |-> [x \in Words |-> buf.w[x] + para.w[x]]]

\* buf.trim(); n records how many paragraphs with text the chunk was joined
\* from.
Trimmed(buf) == [len |-> buf.len - buf.lead - buf.trail, w |-> buf.w, n |-> buf.k]

\* The loop over the paragraphs of a block when a buffer that would grow
\* past the length cap is dropped instead of pushed.
RECURSIVE ChunkParagraphsDropping(_, _, _, _)
ChunkParagraphsDropping(paras, nl, buf, out) ==
  LET flushed == IF buf.k > 0 THEN Append(out, Trimmed(buf)) ELSE out
  IN  IF paras = << >> THEN flushed
      ELSE LET para == Head(paras)
               tail == IF Len(paras) = 1 THEN nl ELSE 0
               candidate == Join(buf, para, tail)
           IN  IF candidate.len > MAX_CHUNK_LEN
               THEN ChunkParagraphsDropping(Tail(paras), nl,
                                            Join(EmptyBuf, para, tail), out)
               ELSE ChunkParagraphsDropping(Tail(paras), nl, candidate, out)

\* The loop over the paragraphs of a block: buf is pushed, trimmed, when it
\* holds anything but whitespace (if (buf.trim()) chunks.push(buf.trim())).
RECURSIVE ChunkParagraphs(_, _, _, _)
ChunkParagraphs(paras, nl, buf, out) ==
  LET flushed == IF buf.k > 0 THEN Append(out, Trimmed(buf)) ELSE out
  IN  IF paras = << >> THEN flushed
      ELSE LET para == Head(paras)
               tail == IF Len(paras) = 1 THEN nl ELSE 0
               candidate == Join(buf, para, tail)
           IN  IF candidate.len > MAX_CHUNK_LEN
               THEN ChunkParagraphs(Tail(paras), nl, Join(EmptyBuf, para, tail),
                                    flushed)
               ELSE ChunkParagraphs(Tail(paras), nl, candidate, out)

\* f[lo] \o ... \o f[hi]
RECURSIVE ConcatRange(_, _, _)
ConcatRange(f, lo, hi) ==
  IF lo > hi THEN << >>
  ELSE IF lo = hi THEN f[lo]
  ELSE LET mid == (lo + hi) \div 2
       IN  ConcatRange(f, lo, mid) \o ConcatRange(f, mid + 1, hi)

\* The chunks of each block in turn, pushed after those in out.
ChunkBlocks(blocks, out) ==
  out \o ConcatRange([k \in 1..Len(blocks) |->
                        ChunkParagraphs(blocks[k],
                                        IF k < Len(blocks) THEN 1 ELSE 0,
                                        EmptyBuf, << >>)],
                     1, Len(blocks))

splitIntoChunksUncapped(text) == ChunkBlocks(Blocks(text), << >>)

\* chunks.slice(0, MAX_CHUNKS_PER_FILE)
FirstChunks(chunks) == SubSeq(chunks, 1, Min(Len(chunks), MAX_CHUNKS_PER_FILE))

splitIntoChunks(text) == FirstChunks(ChunkBlocks(Blocks(text), << >>))

\* ln(count + 1) * 0.2 without the cap
RepeatBonusUncapped(count) ==
  LET t == <<1386, 2197, 2773, 3219, 3584, 3892, 4159, 4394, 4605, 4796, 4970,
             5130>>
  IN  IF count > Len(t) THEN 5278 ELSE t[count]

\* min(ln(count + 1) * 0.2, 0.5)
RepeatBonus(count) ==
  LET t == <<1386, 2197, 2773, 3219, 3584, 3892, 4159, 4394, 4605, 4796, 4970>>
  IN  IF count > Len(t) THEN 5000 ELSE t[count]

Occurrences(ch, word) == IF word \in Words THEN ch.w[word] ELSE 0

RECURSIVE BonusSum(_, _)
BonusSum(keywords, ch) ==
  IF keywords = << >> THEN 0
  ELSE (IF Occurrences(ch, Head(keywords)) > 0
        THEN RepeatBonus(Occurrences(ch, Head(keywords))) ELSE 0)
       + BonusSum(Tail(keywords), ch)

scoreChunk(keywords, ch) ==
  LET n    == Len(keywords)
      hits == Cardinality({i \in 1..n : Occurrences(ch, keywords[i]) > 0})
  IN  IF n = 0 THEN 0
      ELSE IF n >= 4 /\ hits < 2 THEN 0
      ELSE Min((hits * 8500 + (BonusSum(keywords, ch) * 3) \div 10) \div n, 10000)

\* Indices of k in descending order of key, equal keys in their given
\* order (Array.prototype.sort is stable).
RECURSIVE InsertDesc(_, _, _)
InsertDesc(s, k, i) ==
  IF s = << >> THEN <<i>>
  ELSE IF k[Head(s)] >= k[i] THEN <<Head(s)>> \o InsertDesc(Tail(s), k, i)
       ELSE <<i>> \o s

RECURSIVE SortDescUpTo(_, _)
SortDescUpTo(k, n) ==
  IF n = 0 THEN << >> ELSE InsertDesc(SortDescUpTo(k, n - 1), k, n)

SortDesc(k) == SortDescUpTo(k, Len(k))

(***************************************************************************)
(* search.js: the corpus and the chunk cache                               *)
(*                                                                         *)
(* The corpus holds the documents of Paths, each with its own timestamp    *)
(* and text, and a block of FillerCount further notes, all written at      *)
(* FillerMtime, never edited, and containing no word of any query.  The    *)
(* cache lists the entries of the documents of Paths in key order and      *)
(* counts the entries of filler notes.                                     *)
(***************************************************************************)
Paths == { "p1", "p2" }
PathOrder == << "p1", "p2" >>
FillerCount == 499
FillerMtime == 2
Mtimes == { FillerMtime - 1, FillerMtime + 1 }

TextNote ==
  << Para(TRUE, 20, NoWords), Para(FALSE, 300, [NoWords EXCEPT !["deploy"] = 2]),
     Para(TRUE, 15, NoWords), Para(FALSE, 500, [NoWords EXCEPT !["deploy"] = 1]) >>
TextHuge == << Para(FALSE, 11000000, [NoWords EXCEPT !["deploy"] = 1]) >>
TextFiller == << Para(FALSE, 40, NoWords) >>
Texts == { TextNote, TextHuge }

NoDoc == [mtimeMs |-> 0, text |-> << >>, readable |-> TRUE]
Exists(doc) == doc.mtimeMs # 0

EmptyCache == [files |-> << >>, bulk |-> 0]
MissingCacheFile == [kind |-> "missing", cache |-> EmptyCache]

\* JSON.stringify(cache): {"version":1,"files":{...}} with, per entry,
\* "<path>":{"mtimeMs":<n>,"chunks":[{"text":"..."},...]}
JsonBase == 24
JsonEntryOverhead == 80
JsonChunkOverhead == 12

RECURSIVE ChunkBytes(_)
ChunkBytes(chunks) ==
  IF chunks = << >> THEN 0
  ELSE Head(chunks).len + JsonChunkOverhead + ChunkBytes(Tail(chunks))

EntryBytes(e) == JsonEntryOverhead + ChunkBytes(e.chunks)

RECURSIVE EntriesBytes(_)
EntriesBytes(files) ==
  IF files = << >> THEN 0 ELSE EntryBytes(Head(files)) + EntriesBytes(Tail(files))

FillerEntryBytes == JsonEntryOverhead + ChunkBytes(splitIntoChunks(TextFiller))

CacheCount(c) == Len(c.files) + c.bulk

JsonBytes(c) ==
  JsonBase + EntriesBytes(c.files) + c.bulk * FillerEntryBytes
    + Max(CacheCount(c) - 1, 0)

HasEntry(c, key) == \E i \in 1..Len(c.files) : c.files[i].key = key
Entry(c, key) == c.files[CHOOSE i \in 1..Len(c.files) : c.files[i].key = key]

\* cache.files[key] = e
Put(c, e) ==
  IF HasEntry(c, e.key)
  THEN [c EXCEPT !.files = [i \in 1..Len(c.files) |->
                              IF c.files[i].key = e.key THEN e ELSE c.files[i]]]
  ELSE [c EXCEPT !.files = Append(@, e)]

\* loadCache: shape is whether the value read has a files object.
loadCache(cf) ==
  IF cf.kind = "valid" THEN [shape |-> TRUE, cache |-> cf.cache]
  ELSE IF cf.kind = "noFiles" THEN [shape |-> FALSE, cache |-> EmptyCache]
  ELSE [shape |-> TRUE, cache |-> EmptyCache]

\* getMemoryFiles: the documents of Paths present, in directory order.
getMemoryFiles(corp) ==
  LET Present(p) == Exists(corp.files[p]) IN SelectSeq(PathOrder, Present)

NeedsRefreshAlways(c, key, st) == TRUE

NeedsRefreshMissingOnly(c, key, st) == ~HasEntry(c, key)

\* !cached || cached.mtimeMs !== st.mtimeMs
NeedsRefresh(c, key, st) ==
  ~HasEntry(c, key) \/ Entry(c, key).mtimeMs # st.mtimeMs

\* The loop over the files (search.js 236-268 and 332-353): acc is the
\* cache, the dirty flag, the documents read and chunked, and the documents
\* handled without an exception.
RECURSIVE RefreshEntries(_, _, _)
RefreshEntries(files, docs, acc) ==
  IF files = << >> THEN acc
  ELSE LET key == Head(files)
           st  == docs[key]
           next ==
             IF ~NeedsRefresh(acc.cache, key, st)
             THEN [acc EXCEPT !.ok = @ \cup {key}]
             ELSE IF ~st.readable THEN acc
             ELSE [cache |-> Put(acc.cache,
                                 [key |-> key, mtimeMs |-> st.mtimeMs,
                                  chunks |-> splitIntoChunks(st.text)]),
                   dirty |-> TRUE,
                   reads |-> acc.reads \cup {key},
                   ok    |-> acc.ok \cup {key}]
       IN  RefreshEntries(Tail(files), docs, next)

\* The same loop over the filler notes: those without an entry are read.
RefreshFillers(corp, acc) ==
  IF corp.bulk > acc.cache.bulk
  THEN [acc EXCEPT !.cache.bulk = corp.bulk, !.dirty = TRUE]
  ELSE acc

\* Entries of documents that are no longer in the corpus are deleted.
PruneDeleted(corp, acc) ==
  LET InCorpus(e) == Exists(corp.files[e.key])
      kept  == SelectSeq(acc.cache.files, InCorpus)
      bulk  == Min(acc.cache.bulk, corp.bulk)
  IN  IF kept = acc.cache.files /\ bulk = acc.cache.bulk THEN acc
      ELSE [acc EXCEPT !.cache = [files |-> kept, bulk |-> bulk], !.dirty = TRUE]

\* The entries of the documents of Paths, newest first.
ByMtimeDesc(c) ==
  LET ord == SortDesc([i \in 1..Len(c.files) |-> c.files[i].mtimeMs])
  IN  [i \in 1..Len(ord) |-> c.files[ord[i]]]

\* The cache without the k entries at the tail of that order, the filler
\* entries taking their place in it.
DropOldest(c, k) ==
  LET Newer(e) == e.mtimeMs > FillerMtime
      Older(e) == e.mtimeMs < FillerMtime
      new   == SelectSeq(ByMtimeDesc(c), Newer)
      old   == SelectSeq(ByMtimeDesc(c), Older)
      dOld  == Min(k, Len(old))
      dFill == Min(k - dOld, c.bulk)
      dNew  == Min(k - dOld - dFill, Len(new))
      dropped == { old[i].key : i \in (Len(old) - dOld + 1)..Len(old) }
                   \cup { new[i].key : i \in (Len(new) - dNew + 1)..Len(new) }
      Kept(e) == e.key \notin dropped
  IN  [files |-> SelectSeq(c.files, Kept), bulk |-> c.bulk - dFill]

EnforceCount(acc) ==
  IF CacheCount(acc.cache) > MAX_CACHE_FILES
  THEN [acc EXCEPT !.cache = DropOldest(@, CacheCount(@) - MAX_CACHE_FILES),
                   !.dirty = TRUE]
  ELSE acc

EvictToByteCeilingNever(c) == c

\* while (ordered.length && bytes > MAX_CACHE_JSON_BYTES) delete the oldest
RECURSIVE EvictToByteCeiling(_)
EvictToByteCeiling(c) ==
  IF CacheCount(c) = 0 \/ JsonBytes(c) <= MAX_CACHE_JSON_BYTES THEN c
  ELSE LET Older(e) == e.mtimeMs < FillerMtime
           fillersNext == SelectSeq(c.files, Older) = << >> /\ c.bulk > 0
           excess == JsonBytes(c) - MAX_CACHE_JSON_BYTES
           per    == FillerEntryBytes + 1
           k == IF fillersNext
                THEN Min(c.bulk, (excess + per - 1) \div per)
                ELSE 1
       IN  EvictToByteCeiling(DropOldest(c, k))

EnforceBytes(acc) ==
  IF acc.dirty THEN [acc EXCEPT !.cache = EvictToByteCeiling(@)] ELSE acc

\* What both entry points do with the cache once it is loaded.
RefreshCache(files, corp, c) ==
  LET a0 == [cache |-> c, dirty |-> FALSE, reads |-> {}, ok |-> {}]
      a1 == RefreshFillers(corp, RefreshEntries(files, corp.files, a0))
  IN  [ loop  |-> a1,
        final |-> EnforceBytes(EnforceCount(PruneDeleted(corp, a1))),
        bulkReads |-> a1.cache.bulk - c.bulk ]

\* The chunks of the documents handled, in scan order, that score at least
\* minScore.
RECURSIVE ScoreChunks(_, _, _, _, _)
ScoreChunks(key, chunks, i, keywords, minScore) ==
  IF i > Len(chunks) THEN << >>
  ELSE (IF scoreChunk(keywords, chunks[i]) >= minScore
        THEN << [path |-> key, score |-> scoreChunk(keywords, chunks[i]),
                 chunk |-> i] >>
        ELSE << >>)
       \o ScoreChunks(key, chunks, i + 1, keywords, minScore)

RECURSIVE ScoreFiles(_, _, _, _, _)
ScoreFiles(files, ok, c, keywords, minScore) ==
  IF files = << >> THEN << >>
  ELSE (IF Head(files) \in ok
        THEN ScoreChunks(Head(files), Entry(c, Head(files)).chunks, 1, keywords,
                         minScore)
        ELSE << >>)
       \o ScoreFiles(Tail(files), ok, c, keywords, minScore)

RankedInScanOrder(results, maxResults) ==
  SubSeq(results, 1, Min(Len(results), maxResults))

Ranked(results, maxResults) ==
  LET ord == SortDesc([i \in 1..Len(results) |-> results[i].score])
      sorted == [i \in 1..Len(ord) |-> results[ord[i]]]
  IN  SubSeq(sorted, 1, Min(Len(sorted), maxResults))

\* listed: the memory directory was listed (getMemoryFiles); scanned: the
\* documents found were examined one by one.
NoSearch(cf) ==
  [cacheFile |-> cf, results |-> << >>, reads |-> {}, bulkReads |-> 0,
   ok |-> {}, wrote |-> FALSE, error |-> FALSE, scanned |-> FALSE,
   listed |-> FALSE]

vectorSearchFiles(query, files, corp, cf, minScore, maxResults) ==
  LET loaded   == loadCache(cf)
      keywords == extractKeywords(query)
      r        == RefreshCache(files, corp, loaded.cache)
  IN  IF keywords = << >> THEN [NoSearch(cf) EXCEPT !.listed = TRUE]
      ELSE IF ~loaded.shape
      THEN [NoSearch(cf) EXCEPT !.error = TRUE, !.listed = TRUE]
      ELSE [ cacheFile |-> IF r.final.dirty
                           THEN [kind |-> "valid", cache |-> r.final.cache]
                           ELSE cf,
             results   |-> Ranked(ScoreFiles(files, r.loop.ok, r.loop.cache,
                                             keywords, minScore), maxResults),
             reads     |-> r.loop.reads,
             bulkReads |-> r.bulkReads,
             ok        |-> r.loop.ok,
             wrote     |-> r.final.dirty,
             error     |-> FALSE,
             scanned   |-> TRUE,
             listed    |-> TRUE ]

\* The options of a search: { maxResults = 10, minScore = 0.5 } by default.
DefaultOptions == [maxResults |-> MAX_RESULTS, minScore |-> MIN_SCORE]
SearchOptions ==
  { DefaultOptions,
    [maxResults |-> 3, minScore |-> MIN_SCORE],
    [maxResults |-> MAX_RESULTS, minScore |-> 9000] }

searchMemoryNoLengthCheck(query, opts, corp, cf) ==
  LET files == getMemoryFiles(corp)
  IN  IF files = << >> /\ corp.bulk = 0
      THEN [NoSearch(cf) EXCEPT !.listed = TRUE]
      ELSE vectorSearchFiles(query, files, corp, cf, opts.minScore,
                             opts.maxResults)

searchMemory(query, opts, corp, cf) ==
  LET files == getMemoryFiles(corp)
  IN  IF QueryLength(query) < MIN_QUERY_LEN THEN NoSearch(cf)
      ELSE IF files = << >> /\ corp.bulk = 0
      THEN [NoSearch(cf) EXCEPT !.listed = TRUE]
      ELSE vectorSearchFiles(query, files, corp, cf, opts.minScore,
                             opts.maxResults)

warmSearchCache(corp, cf) ==
  LET files  == getMemoryFiles(corp)
      loaded == loadCache(cf)
      r      == RefreshCache(files, corp, loaded.cache)
  IN  IF ~loaded.shape
      THEN [NoSearch(cf) EXCEPT !.error = TRUE, !.listed = TRUE]
      ELSE [ cacheFile |-> IF r.final.dirty
                           THEN [kind |-> "valid", cache |-> r.final.cache]
                           ELSE cf,
             results   |-> << >>,
             reads     |-> r.loop.reads,
             bulkReads |-> r.bulkReads,
             ok        |-> r.loop.ok,
             wrote     |-> r.final.dirty,
             error     |-> FALSE,
             scanned   |-> TRUE,
             listed    |-> TRUE ]

(***************************************************************************)
(* hook.js: the rendered injection section                                 *)
(*                                                                         *)
(* A candidate chunk is its snippet: len characters of text between ws     *)
(* characters of surrounding whitespace.  The section is given by the      *)
(* number of snippet characters placed under each chunk heading.           *)
(***************************************************************************)
maxInjectedCharsTotal == 4000
maxSnippetCharsEach == 800

Snip(ws, n) == [ws |-> ws, len |-> n]

Snippets == { Snip(0, 0), Snip(0, 300), Snip(2, 800), Snip(0, 5000) }

\* String(c.snippet || '').trim().slice(0, cap)
TrimSlice(c, cap) == Min(c.len, cap)

RECURSIVE TakeSnippets(_, _, _, _)
TakeSnippets(chunks, cap, budget, out) ==
  IF chunks = << >> THEN out
  ELSE LET snippet == TrimSlice(Head(chunks), cap)
           take == Min(snippet, Max(0, budget))
           left == budget - take
       IN  IF left <= 0 THEN Append(out, take)
           ELSE TakeSnippets(Tail(chunks), cap, left, Append(out, take))

buildInjectionSectionUncapped(chunks) ==
  TakeSnippets(chunks, maxInjectedCharsTotal + 1000, maxInjectedCharsTotal, << >>)

buildInjectionSection(chunks) ==
  TakeSnippets(chunks, maxSnippetCharsEach, maxInjectedCharsTotal, << >>)

RECURSIVE SumSeq(_)
SumSeq(q) == IF q = << >> THEN 0 ELSE Head(q) + SumSeq(Tail(q))

(***************************************************************************)
(* search.js: the corpus scanner over a directory tree                     *)
(*                                                                         *)
(* A name is the sequence of its characters.  An entry of the tree is a    *)
(* file or a leaf directory: the names of the directories from the root    *)
(* down to it, and its own name.                                           *)
(***************************************************************************)
Digits == { "0", "1", "2", "3", "4", "5", "6", "7", "8", "9" }

MdSuffix == << ".", "m", "d" >>

endsWith(name, suffix) ==
  /\ Len(name) >= Len(suffix)
  /\ SubSeq(name, Len(name) - Len(suffix) + 1, Len(name)) = suffix

startsWith(name, prefix) ==
  /\ Len(name) >= Len(prefix)
  /\ SubSeq(name, 1, Len(prefix)) = prefix

\* /^\d{4}-\d{2}-\d{2}\.md$/
DAILY_INJECTION_RE(name) ==
  /\ Len(name) = 13
  /\ \A i \in {1, 2, 3, 4, 6, 7, 9, 10} : name[i] \in Digits
  /\ name[5] = "-"
  /\ name[8] = "-"
  /\ SubSeq(name, 11, 13) = MdSuffix

ArchiveName == << "a", "r", "c", "h", "i", "v", "e" >>
HiddenName  == << ".", "g", "i", "t" >>
ProjectsName == << "p", "r", "o", "j" >>

DatedName  == << "2", "0", "2", "6", "-", "0", "2", "-", "1", "1", ".", "m", "d" >>
DatedTmpName == DatedName \o << ".", "t", "m", "p", ".", "a", "1" >>
DigestName ==
  << "s", "e", "s", "s", "i", "o", "n", "-", "d", "i", "g", "e", "s", "t",
     ".", "m", "d" >>
SnapshotName ==
  << "M", "E", "M", "O", "R", "Y", "-", "f", "u", "l", "l", "-", "1", ".", "m", "d" >>
NotesName  == << "n", "o", "t", "e", "s", ".", "m", "d" >>
TextName   == << "n", "o", "t", "e", "s", ".", "t", "x", "t" >>

DirEntry(dirs, name, isFile) == [dirs |-> dirs, name |-> name, isFile |-> isFile]

TreeEntries ==
  { DirEntry(<< >>, NotesName, TRUE),
    DirEntry(<< >>, TextName, TRUE),
    DirEntry(<< >>, DatedName, TRUE),
    DirEntry(<< >>, DatedTmpName, TRUE),
    DirEntry(<< >>, DigestName, TRUE),
    DirEntry(<< ArchiveName >>, SnapshotName, TRUE),
    DirEntry(<< HiddenName >>, NotesName, TRUE),
    DirEntry(<< ProjectsName >>, DatedName, TRUE),
    DirEntry(<< ProjectsName, ArchiveName >>, NotesName, TRUE),
    DirEntry(<< ProjectsName >>, NotesName, FALSE) }

\* The recursion descends into a directory unless it is hidden or named
\* archive.
Descends(dirs) ==
  \A i \in 1..Len(dirs) : ~startsWith(dirs[i], << "." >>) /\ dirs[i] # ArchiveName

\* getMemoryFiles on the whole tree under the root directory.
ScanTree(tree) ==
  { e \in tree : /\ Descends(e.dirs)
                 /\ e.isFile
                 /\ endsWith(e.name, MdSuffix)
                 /\ ~DAILY_INJECTION_RE(e.name) }

(***************************************************************************)
(* hook.js: the cross-session digest                                       *)
(***************************************************************************)
\* The transcripts of the sessions directory that pass the name filter
\* (*.jsonl, not *.deleted.*), in the order readdir lists them.
TranscriptNames == << "s1.jsonl", "s2.jsonl" >>

\* What a transcript yields: no highlight at all, a few short lines, or
\* eight topics, decisions and open threads of the greatest sample length.
TranscriptKinds == { "empty", "short", "long" }

NoTranscript == [mtimeMs |-> 0, kind |-> "empty"]
NoDigestFile == [updated |-> 0, sessions |-> 0, body |-> << >>, len |-> 0]
NoDigestEvent == [op |-> "none", prevOp |-> "none", changed |-> FALSE,
                  reason |-> "none", sessions |-> 0, wrote |-> FALSE,
                  pre |-> << >>]

NoDigest ==
  [dir |-> FALSE,
   sessions |-> [i \in 1..Len(TranscriptNames) |-> NoTranscript],
   file |-> NoDigestFile,
   fileMtimes |-> [i \in 1..Len(TranscriptNames) |-> 0],
   clock |-> 0,
   ev |-> NoDigestEvent]

\* The stats of the transcripts present, sorted by mtimeMs descending (the
\* sort is stable), the first maxSessions of them.
RECURSIVE InsertByMtime(_, _)
InsertByMtime(x, sorted) ==
  IF sorted = << >> THEN << x >>
  ELSE IF Head(sorted).mtimeMs >= x.mtimeMs
       THEN << Head(sorted) >> \o InsertByMtime(x, Tail(sorted))
       ELSE << x >> \o sorted

RECURSIVE SortByMtime(_, _)
SortByMtime(stats, sorted) ==
  IF stats = << >> THEN sorted
  ELSE SortByMtime(Tail(stats), InsertByMtime(Head(stats), sorted))

SelectedStats(sessions, maxSessions) ==
  LET all == [i \in 1..Len(TranscriptNames) |->
                [p |-> i, mtimeMs |-> sessions[i].mtimeMs, kind |-> sessions[i].kind]]
      Present(x) == x.mtimeMs > 0
      sorted == SortByMtime(SelectSeq(all, Present), << >>)
  IN  SubSeq(sorted, 1, Min(Len(sorted), maxSessions))

\* selectedStats.every(x => digestState.fileMtimes[x.p] === x.mtimeMs)
DigestUnchanged(selectedStats, fileMtimes) ==
  \A i \in 1..Len(selectedStats) :
    fileMtimes[selectedStats[i].p] = selectedStats[i].mtimeMs

\* Object.fromEntries(selectedStats.map(x => [x.p, x.mtimeMs])); the variant
\* records nothing.
SelectedMtimesNone(selectedStats) ==
  [i \in 1..Len(TranscriptNames) |-> 0]

SelectedMtimes(selectedStats) ==
  [i \in 1..Len(TranscriptNames) |->
     IF \E j \in 1..Len(selectedStats) : selectedStats[j].p = i
     THEN (CHOOSE x \in { selectedStats[j] : j \in 1..Len(selectedStats) } : x.p = i).mtimeMs
     ELSE 0]

\* The characters of the digest's lines: the title, the Updated line, the
\* three headings and the closing line, and up to eight topics, decisions
\* and open threads of at most 260 characters each.
KindChars(kind) ==
  IF kind = "long" THEN DIGEST_MAX_BODY ELSE IF kind = "short" THEN 120 ELSE 0

RECURSIVE BodyChars(_)
BodyChars(selectedStats) ==
  IF selectedStats = << >> THEN 0
  ELSE KindChars(Head(selectedStats).kind) + BodyChars(Tail(selectedStats))

\* lines.join('\n').slice(0, 8000): the digest derived at time t.
DeriveDigest(selectedStats, t) ==
  LET raw == DIGEST_FRAME + Min(BodyChars(selectedStats), DIGEST_MAX_BODY)
  IN  [updated |-> t,
       sessions |-> Len(selectedStats),
       body |-> [i \in 1..Len(selectedStats) |-> selectedStats[i].kind],
       len |-> Min(raw, DIGEST_LIMIT)]

\* refreshSessionDigest: the digest state after the call made at time t.
refreshSessionDigest(d, t, maxSessions) ==
  LET selectedStats == SelectedStats(d.sessions, maxSessions)
      next == DeriveDigest(selectedStats, t)
      Done(changed, reason, wrote, file, mtimes) ==
        [d EXCEPT !.file = file, !.fileMtimes = mtimes, !.clock = t,
                  !.ev = [op |-> "refresh", prevOp |-> d.ev.op,
                          changed |-> changed, reason |-> reason,
                          sessions |-> Len(selectedStats), wrote |-> wrote,
                          pre |-> [file |-> d.file, fileMtimes |-> d.fileMtimes]]]
  IN  IF ~d.dir
      THEN [Done(FALSE, "sessions_dir_unavailable", FALSE, d.file, d.fileMtimes)
              EXCEPT !.ev.sessions = 0]
      ELSE IF DigestUnchanged(selectedStats, d.fileMtimes)
      THEN Done(FALSE, "unchanged", FALSE, d.file, d.fileMtimes)
      ELSE IF d.file = next
      THEN Done(FALSE, "same", FALSE, d.file, d.fileMtimes)
      ELSE Done(TRUE, "written", TRUE, next, SelectedMtimes(selectedStats))

(***************************************************************************)
(* Files shared by processes: paths, inodes, write-to-temp-then-rename     *)
(***************************************************************************)
\* What two processes run side by side.
Scenarios == { "saveCache", "saveMaintenanceState", "injectMemoryChunks",
               "optimizeCoreMemoryFiles" }

\* The file each scenario is about.
TargetOf(scn) ==
  IF scn = "saveCache" THEN "cache"
  ELSE IF scn = "saveMaintenanceState" THEN "mstate"
  ELSE IF scn = "injectMemoryChunks" THEN "dated" ELSE "core"

\* `${p}.tmp.${Date.now()}`: the name depends on the target and the clock.
TmpStamped(stamp) == IF stamp = 1 THEN "tmp.1" ELSE "tmp.2"
\* `${p}.tmp.${crypto.randomBytes(6).toString('hex')}`: one name per writer.
TmpRandom(k) == IF k = 1 THEN "tmp.r1" ELSE "tmp.r2"
\* archive/MEMORY-full-<stamp>.md
ArchivePath(stamp) == IF stamp = 1 THEN "arch.1" ELSE "arch.2"

RacePaths == { "cache", "mstate", "dated", "core", "tmp.1", "tmp.2",
               "tmp.r1", "tmp.r2", "arch.1", "arch.2" }
ArchivePaths == { "arch.1", "arch.2" }
Procs == { 1, 2 }

\* File contents are sequences of cells.
Previous == << "p" >>
SaveContent(k) == IF k = 1 THEN << "a", "a" >> ELSE << "b" >>
SectionOf(k) == IF k = 1 THEN "S1" ELSE "S2"
OriginalCore == << "o", "o", "o" >>
\* MEMORY.md of more than 12000 bytes
CoreBloated(content) == Len(content) >= Len(OriginalCore)
\* The compacted MEMORY.md built from raw.
CompactOf(raw) == IF raw = OriginalCore THEN << "c" >> ELSE << "cc" >>

NoProc == [pc |-> "start", stamp |-> 0, tmp |-> "none", out |-> << >>,
           buf |-> << >>, fd |-> 0, ret |-> "none"]
NoRace == [scn |-> "none", clock |-> 1,
           ino |-> [q \in RacePaths |-> 0],
           data |-> [i \in 1..MaxInode |-> << >>],
           p |-> [k \in Procs |-> NoProc],
           initial |-> << >>,
           seen |-> << "unread" >>]

\* The content a path holds; the empty content stands for a missing file
\* too (readFileIfExists).
ContentOf(r, q) == IF r.ino[q] = 0 THEN << >> ELSE r.data[r.ino[q]]

\* open(q, O_WRONLY | O_CREAT | O_TRUNC) by process k: an existing file is
\* truncated in place, a missing one gets a fresh inode.
OpenTrunc(r, k, q) ==
  LET free == { i \in 1..MaxInode :
                  /\ \A x \in RacePaths : r.ino[x] # i
                  /\ \A j \in Procs : r.p[j].fd # i }
      i == IF r.ino[q] # 0 THEN r.ino[q]
           ELSE CHOOSE x \in free : \A y \in free : x <= y
  IN  [r EXCEPT !.ino[q] = i, !.data[i] = << >>, !.p[k].fd = i]

\* write(fd, content) at offset 0, then close: what lies beyond the written
\* bytes stays.
WriteFd(r, k, content) ==
  LET i == r.p[k].fd
      old == r.data[i]
  IN  [r EXCEPT !.data[i] = content \o SubSeq(old, Len(content) + 1, Len(old)),
                !.p[k].fd = 0]

\* rename(from, to): fails with ENOENT when from is gone.
RenamePath(r, k, from, to) ==
  IF r.ino[from] = 0
  THEN [r EXCEPT !.p[k].ret = "ENOENT", !.p[k].pc = "done"]
  ELSE [r EXCEPT !.ino[to] = r.ino[from], !.ino[from] = 0,
                 !.p[k].ret = IF r.p[k].ret = "none" THEN "ok" ELSE r.p[k].ret,
                 !.p[k].pc = "done"]

(***************************************************************************)
(* hook.js: the sections of the dated document as text                     *)
(*                                                                         *)
(* A document is a sequence of tokens separated by whitespace: pieces of   *)
(* the user's text, the start and end markers of the three kinds of        *)
(* section, and the text inside a section.                                 *)
(***************************************************************************)
UserTokens == { "U1", "U2", "U3" }
SessionStart == "<!-- adaptive-memory:session=a -->"
SessionEnd == "<!-- adaptive-memory:session:end -->"
STARTUP_DIGEST_MARKER_START == "<!-- adaptive-memory:digest:start -->"
STARTUP_DIGEST_MARKER_END == "<!-- adaptive-memory:digest:end -->"
MAINTENANCE_MARKER == "<!-- adaptive-memory:maintenance:pending -->"
MAINTENANCE_END_MARKER == "<!-- adaptive-memory:maintenance:end -->"

\* The parts a dated document is put together from: a piece of the user's
\* text, or a section as the program writes it (the second injection
\* section has a piece of user text typed into it).
TextParts ==
  { << "U1" >>, << "U2" >>,
    << SessionStart, "body", SessionEnd >>,
    << SessionStart, "U3", SessionEnd >>,
    << STARTUP_DIGEST_MARKER_START, "body", STARTUP_DIGEST_MARKER_END >>,
    << MAINTENANCE_MARKER, "body", MAINTENANCE_END_MARKER >> }

\* The first index of token t in text, 0 when there is none (indexOf).
IndexOf(text, t) ==
  IF \E i \in 1..Len(text) : text[i] = t
  THEN CHOOSE i \in 1..Len(text) : text[i] = t /\ \A j \in 1..(i - 1) : text[j] # t
  ELSE 0

\* The last index of token t in text, 0 when there is none.
LastIndexOf(text, t) ==
  IF \E i \in 1..Len(text) : text[i] = t
  THEN CHOOSE i \in 1..Len(text) : text[i] = t /\ \A j \in (i + 1)..Len(text) : text[j] # t
  ELSE 0

\* A greedy pattern, /start[\s\S]*end\s*/g: a match runs from a start marker
\* to the last end marker.
RECURSIVE ReplaceSectionsGreedy(_, _, _)
ReplaceSectionsGreedy(text, start, end) ==
  IF text = << >> THEN [stripped |-> << >>, sections |-> << >>]
  ELSE LET j == LastIndexOf(Tail(text), end)
       IN  IF Head(text) = start /\ j > 0
           THEN LET rest == ReplaceSectionsGreedy(SubSeq(text, j + 2, Len(text)), start, end)
                IN  [stripped |-> rest.stripped,
                     sections |-> << SubSeq(text, 1, j + 1) >> \o rest.sections]
           ELSE LET rest == ReplaceSectionsGreedy(Tail(text), start, end)
                IN  [stripped |-> << Head(text) >> \o rest.stripped,
                     sections |-> rest.sections]

\* content.replace(/start[\s\S]*?end\s*/g, ...): every match runs from a
\* start marker to the nearest end marker after it; the matches, and the
\* text without them.
RECURSIVE ReplaceSections(_, _, _)
ReplaceSections(text, start, end) ==
  IF text = << >> THEN [stripped |-> << >>, sections |-> << >>]
  ELSE LET j == IndexOf(Tail(text), end)
       IN  IF Head(text) = start /\ j > 0
           THEN LET rest == ReplaceSections(SubSeq(text, j + 2, Len(text)), start, end)
                IN  [stripped |-> rest.stripped,
                     sections |-> << SubSeq(text, 1, j + 1) >> \o rest.sections]
           ELSE LET rest == ReplaceSections(Tail(text), start, end)
                IN  [stripped |-> << Head(text) >> \o rest.stripped,
                     sections |-> rest.sections]

stripAdaptiveSectionsText(content) ==
  ReplaceSections(content, SessionStart, SessionEnd)

stripPriorDigestText(content) ==
  LET start == IndexOf(content, STARTUP_DIGEST_MARKER_START)
      end   == IndexOf(content, STARTUP_DIGEST_MARKER_END)
  IN  IF start = 0 \/ end = 0 \/ end < start THEN content
      ELSE SubSeq(content, 1, start - 1) \o SubSeq(content, end + 1, Len(content))

stripMaintenancePromptText(content) ==
  ReplaceSections(content, MAINTENANCE_MARKER, MAINTENANCE_END_MARKER).stripped

\* compactDailyMemoryForStartup on the text of the dated document.
compactDailyMemoryText(existing) ==
  LET withoutDigest == stripMaintenancePromptText(stripPriorDigestText(existing))
      r == stripAdaptiveSectionsText(withoutDigest)
      digest == << STARTUP_DIGEST_MARKER_START, "body", STARTUP_DIGEST_MARKER_END >>
  IN  IF existing = << >> THEN existing
      ELSE IF r.sections = << >> THEN existing
      ELSE r.stripped \o digest

\* clearMaintenancePromptFromDaily on the text of the dated document.
clearMaintenancePromptText(existing) ==
  IF existing = << >> \/ IndexOf(existing, MAINTENANCE_MARKER) = 0 THEN existing
  ELSE stripMaintenancePromptText(existing)

(***************************************************************************)
(* State                                                                   *)
(***************************************************************************)
VARIABLES
  now,        \* Date.now(), in hours
  mstate,     \* adaptive-memory-maintenance-state.json
  daily,      \* memoryDir/<today>.md
  core,       \* MEMORY.md
  archive,    \* memoryDir/archive/, in order of creation
  latest,     \* latest user message of each session's transcript
  processed,  \* sessions having a first-message marker file
  last,       \* what the most recent event did (observation only)
  corpus,     \* the markdown documents under memoryDir
  cacheFile,  \* adaptive-memory-cache.json
  seen,       \* timestamps the cache-touching calls so far found (observation only)
  obs,        \* what the most recent search or warmup did (observation only)
  direct,     \* a direct call of an exported function: arguments and result
  digest,     \* the session transcripts, session-digest.md and its state file
  race        \* files and the steps of processes running side by side

lifeVars == <<now, mstate, daily, core, archive, latest, processed, last>>
cacheVars == <<corpus, cacheFile, seen, obs>>
vars == <<now, mstate, daily, core, archive, latest, processed, last,
          corpus, cacheFile, seen, obs, direct, digest, race>>

DefaultMaintenanceState ==
  [pendingConsent |-> FALSE, lastPromptAt |-> 0, optimizedAt |-> 0,
   snoozeUntil |-> 0, declinedAt |-> 0]

NoEvent ==
  [op |-> "init", session |-> << >>, pending |-> FALSE, msg |-> NoMsg,
   branch |-> "none", optRan |-> FALSE, optThrew |-> FALSE, steps |-> << >>,
   outcome |-> "not_called", injected |-> 0, failed |-> "none",
   success |-> TRUE, fallback |-> "none", raised |-> FALSE,
   wasProcessed |-> FALSE, fresh |-> FALSE, afterPrompt |-> FALSE,
   cfg |-> [enableAdaptiveMemory |-> TRUE,
            fallbackBehavior |-> "continue_without_context"],
   pre |-> [core |-> << >>, daily |-> << >>, archive |-> << >>,
            mstate |-> DefaultMaintenanceState],
   prev |-> [op |-> "none", session |-> << >>, outcome |-> "not_called",
             injected |-> 0]]

NoCall == [fn |-> "none", args |-> << >>, done |-> FALSE, result |-> << >>]

ZeroSeen == [files |-> [p \in Paths |-> 0], bulk |-> 0]

NoObs ==
  [op |-> "none", query |-> << >>, opts |-> DefaultOptions, listed |-> FALSE,
   scanned |-> FALSE, reads |-> {},
   bulkReads |-> 0, wrote |-> FALSE, error |-> FALSE, results |-> << >>,
   pre |-> [cacheFile |-> MissingCacheFile, seen |-> ZeroSeen]]

LifeKeys == { <<"a">> }
TurnKeys == { <<"a">>, <<"a", " ", "b">> }

FoundCounts == 0..Min(MaxFound, SEARCH_TOP_K)

Today(t) == t \div 24

\* Date.now() when the gateway comes up: some hour of some day after the epoch.
StartHour == 24

Init ==
  /\ now = StartHour
  /\ mstate = DefaultMaintenanceState
  /\ daily = << >>
  /\ core = CoreSmall
  /\ archive = << >>
  /\ latest = [s \in LifeKeys |-> NoMsg]
  /\ processed = {}
  /\ last = NoEvent
  /\ corpus = [files |-> [p \in Paths |-> NoDoc], bulk |-> 0]
  /\ cacheFile = MissingCacheFile
  /\ seen = ZeroSeen
  /\ obs = NoObs
  /\ direct = NoCall
  /\ digest = NoDigest
  /\ race = NoRace

(***************************************************************************)
(* Environment: the clock, the user's messages, edits of the documents     *)
(***************************************************************************)
Tick ==
  /\ now + TickHours <= StartHour + MaxTicks * TickHours
  /\ now' = now + TickHours
  /\ daily' = IF Today(now + TickHours) # Today(now) THEN << >> ELSE daily
  /\ last' = [NoEvent EXCEPT !.op = "tick"]
  /\ UNCHANGED <<mstate, core, archive, latest, processed>>
  /\ UNCHANGED <<cacheVars, direct, digest, race>>

UserSays(s, m) ==
  /\ latest' = [latest EXCEPT ![s] = m]
  /\ last' = [NoEvent EXCEPT !.op = "say", !.session = s, !.msg = m]
  /\ UNCHANGED <<now, mstate, daily, core, archive, processed>>
  /\ UNCHANGED <<cacheVars, direct, digest, race>>

EditCore(c) ==
  /\ core' = c
  /\ last' = [NoEvent EXCEPT !.op = "editCore"]
  /\ UNCHANGED <<now, mstate, daily, archive, latest, processed>>
  /\ UNCHANGED <<cacheVars, direct, digest, race>>

EditDaily(n) ==
  /\ Len(SelectSeq2(daily, {"user"})) < MaxUserParts
  /\ daily' = Append(daily, UserPart(n))
  /\ last' = [NoEvent EXCEPT !.op = "editDaily"]
  /\ UNCHANGED <<now, mstate, core, archive, latest, processed>>
  /\ UNCHANGED <<cacheVars, direct, digest, race>>

(***************************************************************************)
(* hook.js: onFirstMessage / injectMemoryChunks                            *)
(***************************************************************************)
\* found is the number of chunks the search returned above the threshold;
\* fail = "inject" makes the retrieval or the write of the document raise.
injectMemoryChunksNoDedupe(key, found, d) ==
  IF found = 0 THEN [daily |-> d, injected |-> 0]
  ELSE [daily |-> Append(d, InjPart(key, found)), injected |-> found]

injectMemoryChunks(key, found, d) ==
  IF found = 0 THEN [daily |-> d, injected |-> 0]
  ELSE IF HasMarker(d, escapeMarker(key)) THEN [daily |-> d, injected |-> 0]
  ELSE [daily |-> Append(d, InjPart(key, found)), injected |-> found]

\* The configuration hook.js runs with: DEFAULTS merged with config.json.
DefaultConfig ==
  [enableAdaptiveMemory |-> TRUE, fallbackBehavior |-> "continue_without_context"]

Configs ==
  { DefaultConfig,
    [DefaultConfig EXCEPT !.fallbackBehavior = "load_all_memory"],
    [DefaultConfig EXCEPT !.fallbackBehavior = "ask_user"],
    [DefaultConfig EXCEPT !.enableAdaptiveMemory = FALSE] }

\* What extractIntent and shouldSearchMemory make of the message: "none" is
\* a message that is no string or has fewer than 10 characters once code is
\* stripped, "technical" one that looks like a pure technical prompt.
MessageKinds == { "none", "technical", "plain" }

\* The fallback named in the result of a failed call (hook.js 224-227).
FallbackAlwaysContinue(cfg) == "continue_without_context"

FallbackResult(cfg) ==
  IF cfg.fallbackBehavior = "load_all_memory" THEN "loaded_all_memory"
  ELSE "continue_without_context"

HookResult(d, outcome) ==
  [daily |-> d, injected |-> 0, outcome |-> outcome, success |-> TRUE,
   fallback |-> "none", failed |-> "none", raised |-> FALSE]

\* onFirstMessage for session key, under configuration cfg, with a message
\* of kind mk, on dated document d.  raised is whether the call ends in an
\* exception instead of a result.
onFirstMessage(cfg, key, mk, found, fail, d) ==
  IF ~cfg.enableAdaptiveMemory THEN HookResult(d, "disabled")
  ELSE IF mk = "none" THEN HookResult(d, "no_intent")
  ELSE IF mk = "technical" THEN HookResult(d, "heuristic")
  ELSE IF fail = "inject"
       THEN [HookResult(d, "fallback") EXCEPT
               !.success = FALSE, !.fallback = FallbackResult(cfg),
               !.failed = "inject"]
  ELSE IF found = 0 THEN HookResult(d, "no_relevant")
  ELSE LET r == injectMemoryChunks(key, found, d)
       IN  [HookResult(r.daily, "injected") EXCEPT !.injected = r.injected]

\* The exported hook entry point, called by the host directly.
OnFirstMessage(cfg, key, mk, found, fail) ==
  LET r == onFirstMessage(cfg, key, mk, found, fail, daily)
  IN  /\ daily' = r.daily
      /\ last' = [NoEvent EXCEPT
                    !.op = "hook", !.session = key,
                    !.outcome = r.outcome, !.injected = r.injected,
                    !.failed = r.failed, !.success = r.success,
                    !.fallback = r.fallback, !.raised = r.raised,
                    !.cfg = cfg,
                    !.pre = [core |-> core, daily |-> daily, archive |-> archive,
                             mstate |-> mstate],
                    !.prev = [op |-> last.op, session |-> last.session,
                              outcome |-> last.outcome,
                              injected |-> last.injected]]
      /\ UNCHANGED <<now, mstate, core, archive, latest, processed>>
      /\ UNCHANGED <<cacheVars, direct, digest, race>>

(***************************************************************************)
(* handler.js: adaptiveMemoryHandler                                       *)
(***************************************************************************)
LifecycleFails == { "none", "warm", "compact", "digest", "append", "save" }
TurnFails ==
  { "none", "coreArchive", "coreWrite", "dailyArchive", "dailyWrite",
    "clearPrompt", "saveState", "inject" }

\* The first-message marker files (handler.js 40-60), as the set of the
\* sessions that have one.
markProcessedSessionNever(marked, s) == marked

markProcessedSession(marked, s) == marked \cup {s}

clearProcessedSessionNever(marked, s) == marked

clearProcessedSession(marked, s) == marked \ {s}

\* The bloat check shared by startup and new/reset (handler.js 204-215 and
\* 239-250), on dated document d; the result is the document and the
\* maintenance state left on disk, whether the notice was added and the
\* state saved, and the file operation that raised, if any.
PromptDueWindowEarly(sig, ms, t) ==
  /\ sig.anyBloated
  /\ ~ms.pendingConsent
  /\ t + SNOOZE_HOURS >= ms.snoozeUntil

PromptDueSinceDecline(sig, ms, t) ==
  /\ sig.anyBloated
  /\ ~ms.pendingConsent
  /\ t >= ms.declinedAt

PromptDueIgnoringSnooze(sig, ms, t) ==
  /\ sig.anyBloated
  /\ ~ms.pendingConsent

\* The condition under which a lifecycle check appends the maintenance notice
\* (handler.js 206 and 241), on signals sig, maintenance state ms at time t.
PromptDue(sig, ms, t) ==
  /\ sig.anyBloated
  /\ ~ms.pendingConsent
  /\ t >= ms.snoozeUntil

BloatCheck(d, fail) ==
  LET sig == getMemoryMaintenanceSignals(core, d)
      due == PromptDue(sig, mstate, now)
      prompted == [mstate EXCEPT !.pendingConsent = TRUE, !.lastPromptAt = now]
  IN  IF ~due \/ HasKind(d, "maint")
      THEN [daily |-> d, mstate |-> mstate, prompted |-> FALSE, threw |-> "none"]
      ELSE IF fail = "append"
      THEN [daily |-> d, mstate |-> mstate, prompted |-> FALSE, threw |-> "append"]
      ELSE IF fail = "save"
      THEN [daily |-> Append(d, MaintPart), mstate |-> mstate, prompted |-> FALSE,
            threw |-> "save"]
      ELSE [daily |-> Append(d, MaintPart), mstate |-> prompted, prompted |-> TRUE,
            threw |-> "none"]

\* The maintenance actions of a lifecycle check that ran to completion, given
\* the actions before the bloat check and what the check did (r).
LifecycleSteps(before, r) ==
  IF r.threw \in {"append", "save"} THEN before
  ELSE IF r.threw = "none" THEN Append(before, "bloat")
  ELSE IF r.threw = before[1] THEN << >>
  ELSE << before[1] >>

\* A gateway:startup event (handler.js 194-220): one try block around the
\* cache warmup, the digest refresh and the bloat check.
Startup(fail) ==
  LET r == IF fail \in {"warm", "digest"}
           THEN [daily |-> daily, mstate |-> mstate, prompted |-> FALSE,
                 threw |-> fail]
           ELSE BloatCheck(daily, fail)
  IN  /\ fail # "compact"
      /\ daily' = r.daily
      /\ mstate' = r.mstate
      /\ last' = [NoEvent EXCEPT !.op = "startup", !.pending = mstate.pendingConsent,
                                 !.branch = IF r.prompted THEN "prompted" ELSE "none",
                                 !.failed = r.threw,
                                 !.steps = LifecycleSteps(<<"warm", "digest">>, r),
                                 !.pre = [core |-> core, daily |-> daily,
                                          archive |-> archive, mstate |-> mstate]]
      /\ UNCHANGED <<now, core, archive, latest, processed>>
      /\ UNCHANGED <<cacheVars, direct, digest, race>>

\* A new or reset command (handler.js 225-256): one try block around the
\* compaction of the dated document, the digest refresh and the bloat check,
\* then the removal of the session's first-message marker.
NewReset(s, fail) ==
  LET compacted == compactDailyMemoryForStartup(daily)
      threwCompact == fail = "compact" /\ compacted # daily
      d1 == IF threwCompact THEN daily ELSE compacted
      r == IF threwCompact
           THEN [daily |-> d1, mstate |-> mstate, prompted |-> FALSE,
                 threw |-> "compact"]
           ELSE IF fail = "digest"
           THEN [daily |-> d1, mstate |-> mstate, prompted |-> FALSE,
                 threw |-> "digest"]
           ELSE BloatCheck(d1, fail)
  IN  /\ fail # "warm"
      /\ daily' = r.daily
      /\ mstate' = r.mstate
      /\ processed' = clearProcessedSession(processed, s)
      /\ last' = [NoEvent EXCEPT !.op = "newreset", !.session = s,
                                 !.pending = mstate.pendingConsent,
                                 !.branch = IF r.prompted THEN "prompted" ELSE "none",
                                 !.failed = r.threw,
                                 !.steps = LifecycleSteps(<<"compact", "digest">>, r),
                                 !.pre = [core |-> core, daily |-> daily,
                                          archive |-> archive, mstate |-> mstate]]
      /\ UNCHANGED <<now, core, archive, latest>>
      /\ UNCHANGED <<cacheVars, direct, digest, race>>

\* A stop command, a command without session key, or an event of another type.
Ignored ==
  /\ last' = [NoEvent EXCEPT !.op = "ignored", !.pending = mstate.pendingConsent,
                             !.branch = "none"]
  /\ UNCHANGED <<now, mstate, daily, core, archive, latest, processed>>
  /\ UNCHANGED <<cacheVars, direct, digest, race>>

\* The two branches of the consent-gated flow (handler.js 261-263, 277).
ConsentGivenAnyMessage(pending, msg) == pending /\ msg # NoMsg

ConsentGivenUngated(pending, msg) == isExplicitMemoryOptimizationConsent(msg)

ConsentGiven(pending, msg) ==
  pending /\ isExplicitMemoryOptimizationConsent(msg)

DeclineGiven(pending, msg) ==
  /\ pending
  /\ ~isExplicitMemoryOptimizationConsent(msg)
  /\ isExplicitMemoryOptimizationDecline(msg)

\* An ordinary command event of session s (handler.js 260-306).  histOk is
\* whether `openclaw sessions history` answered; when it does not,
\* readSessionHistory returns no message.
TurnUnder(cfg, s, histOk, found, fail) ==
  LET latestUser == IF histOk THEN latest[s] ELSE NoMsg
      pending == mstate.pendingConsent
  IN
  \* each of the three calls is made once per turn, the optimization only on
  \* a consent (line 263)
  \E consent \in {ConsentGiven(pending, latestUser)} :
  \E decline \in {DeclineGiven(pending, latestUser)},
     opt \in {IF consent THEN optimizeCoreMemoryFiles(core, daily, archive, fail)
              ELSE [core |-> core, daily |-> daily, archive |-> archive,
                    threw |-> FALSE, steps |-> << >>]} :
  LET
      approved == [mstate EXCEPT !.pendingConsent = FALSE, !.optimizedAt = now,
                                 !.snoozeUntil = 0]
      declined == [mstate EXCEPT !.pendingConsent = FALSE, !.declinedAt = now,
                                 !.snoozeUntil = now + SNOOZE_HOURS]
      \* consent branch: the try block of lines 264-276
      c1 == IF opt.threw
            THEN [daily |-> opt.daily, mstate |-> mstate, raised |-> FALSE]
            ELSE IF fail = "clearPrompt" /\ HasKind(opt.daily, "maint")
            THEN [daily |-> opt.daily, mstate |-> mstate, raised |-> FALSE]
            ELSE IF fail = "saveState"
            THEN [daily |-> clearMaintenancePromptFromDaily(opt.daily),
                  mstate |-> mstate, raised |-> FALSE]
            ELSE [daily |-> clearMaintenancePromptFromDaily(opt.daily),
                  mstate |-> approved, raised |-> FALSE]
      \* decline branch: lines 277-286, outside any try block
      d1 == IF fail = "clearPrompt" /\ HasKind(daily, "maint")
            THEN [daily |-> daily, mstate |-> mstate, raised |-> TRUE]
            ELSE IF fail = "saveState"
            THEN [daily |-> clearMaintenancePromptFromDaily(daily),
                  mstate |-> mstate, raised |-> TRUE]
            ELSE [daily |-> clearMaintenancePromptFromDaily(daily),
                  mstate |-> declined, raised |-> FALSE]
      g == IF consent THEN c1
           ELSE IF decline THEN d1
           ELSE [daily |-> daily, mstate |-> mstate, raised |-> FALSE]
      \* first-message injection: lines 289-306
      firstUserMessage == latestUser
      call == ~g.raised /\ s \notin processed /\ firstUserMessage # NoMsg
      r == IF call THEN onFirstMessage(cfg, s, "plain", found, fail, g.daily)
           ELSE HookResult(g.daily, "not_called")
  IN  /\ consent => Len(archive) < MaxArchive
      /\ daily' = r.daily
      /\ mstate' = g.mstate
      /\ core' = IF consent THEN opt.core ELSE core
      /\ archive' = IF consent THEN opt.archive ELSE archive
      /\ processed' = IF call THEN markProcessedSession(processed, s) ELSE processed
      /\ last' = [NoEvent EXCEPT
                    !.op = "turn", !.session = s, !.pending = pending,
                    !.msg = latestUser,
                    !.branch = IF consent THEN "consent"
                               ELSE IF decline THEN "decline" ELSE "none",
                    !.optRan = consent,
                    !.optThrew = consent /\ opt.threw,
                    !.steps = IF consent THEN opt.steps ELSE << >>,
                    !.outcome = r.outcome, !.injected = r.injected,
                    !.wasProcessed = s \in processed,
                    !.fresh = last.op = "newreset" /\ last.session = s,
                    !.afterPrompt = last.branch = "prompted",
                    !.cfg = cfg,
                    !.pre = [core |-> core, daily |-> daily, archive |-> archive,
                             mstate |-> mstate]]
      /\ UNCHANGED <<now, latest>>
      /\ UNCHANGED <<cacheVars, direct, digest, race>>

\* A turn under the configuration the package ships with.
Turn(s, histOk, found, fail) == TurnUnder(DefaultConfig, s, histOk, found, fail)

\* The program when config.json sets enableAdaptiveMemory to false.  The
\* handler does not read the setting: startup and new/reset are the actions
\* above, and a turn passes the configuration on to onFirstMessage only.
DisabledConfig == [DefaultConfig EXCEPT !.enableAdaptiveMemory = FALSE]

NextOff ==
  \/ \E s \in LifeKeys, m \in Messages : UserSays(s, m)
  \/ \E c \in CoreSamples : EditCore(c)
  \/ \E n \in UserSizes : EditDaily(n)
  \/ Startup("none")
  \/ \E s \in LifeKeys : NewReset(s, "none")
  \/ \E s \in LifeKeys, h \in BOOLEAN, f \in FoundCounts :
       TurnUnder(DisabledConfig, s, h, f, "none")

SpecOff == Init /\ [][NextOff]_vars

Next ==
  \/ \E s \in LifeKeys, m \in Messages : UserSays(s, m)
  \/ \E c \in CoreSamples : EditCore(c)
  \/ \E n \in UserSizes : EditDaily(n)
  \/ Startup("none")
  \/ \E s \in LifeKeys : NewReset(s, "none")
  \/ Ignored
  \/ \E s \in LifeKeys, h \in BOOLEAN, f \in FoundCounts : Turn(s, h, f, "none")

Spec == Init /\ [][Next]_vars

\* The same program when file operations may fail.
NextFault ==
  \/ \E s \in LifeKeys, m \in {MsgConsentSpec, MsgDeclineTest} : UserSays(s, m)
  \/ EditCore(CoreBullets)
  \/ \E n \in UserSizes : EditDaily(n)
  \/ \E fail \in LifecycleFails : Startup(fail)
  \/ \E s \in LifeKeys, fail \in LifecycleFails : NewReset(s, fail)
  \/ Ignored
  \/ \E s \in LifeKeys, f \in FoundCounts, fail \in TurnFails : Turn(s, TRUE, f, fail)

SpecFault == Init /\ [][NextFault]_vars

\* The injection entry point called by the host for any session, over days.
InitInject ==
  /\ now = StartHour
  /\ mstate = DefaultMaintenanceState
  /\ daily = << >>
  /\ core = CoreSmall
  /\ archive = << >>
  /\ latest = [s \in SessionKeys |-> NoMsg]
  /\ processed = {}
  /\ last = NoEvent
  /\ corpus = [files |-> [p \in Paths |-> NoDoc], bulk |-> 0]
  /\ cacheFile = MissingCacheFile
  /\ seen = ZeroSeen
  /\ obs = NoObs
  /\ direct = NoCall
  /\ digest = NoDigest
  /\ race = NoRace

NextInject ==
  \/ Tick
  \/ \E n \in UserSizes : EditDaily(n)
  \/ \E s \in SessionKeys : NewReset(s, "none")
  \/ \E s \in SessionKeys, f \in FoundCounts, fail \in {"none", "inject"} :
       OnFirstMessage(DefaultConfig, s, "plain", f, fail)

SpecInject == InitInject /\ [][NextInject]_vars

\* Events of several sessions: gateway startup, first messages, ordinary
\* commands whose injection may fail, new/reset commands, over days.
NextSession ==
  \/ Tick
  \/ \E s \in SessionKeys, m \in {MsgDeclineSpec, MsgConsentSpec} : UserSays(s, m)
  \/ Startup("none")
  \/ \E s \in SessionKeys : NewReset(s, "none")
  \/ Ignored
  \/ \E s \in SessionKeys, h \in BOOLEAN, f \in FoundCounts, fail \in {"none", "inject"} :
       Turn(s, h, f, fail)

SpecSession == InitInject /\ [][NextSession]_vars

\* Lifecycle events over days: the snooze window set by a decline elapses, and
\* the dated document is over its threshold with or without its injections.
NextBloat ==
  \/ Tick
  \/ \E s \in LifeKeys, m \in {MsgConsentSpec, MsgDeclineTest} : UserSays(s, m)
  \/ EditCore(CoreProse)
  \/ \E n \in BloatUserSizes : EditDaily(n)
  \/ Startup("none")
  \/ \E s \in LifeKeys : NewReset(s, "none")
  \/ \E s \in LifeKeys, f \in FoundCounts : Turn(s, TRUE, f, "none")

SpecBloat == Init /\ [][NextBloat]_vars

\* The injection entry point under every configuration and kind of message.
NextHook ==
  \/ Tick
  \/ \E n \in UserSizes : EditDaily(n)
  \/ \E s \in LifeKeys : NewReset(s, "none")
  \/ \E cfg \in Configs, s \in LifeKeys, mk \in MessageKinds,
        f \in FoundCounts, fail \in {"none", "inject"} :
       OnFirstMessage(cfg, s, mk, f, fail)

SpecHook == InitInject /\ [][NextHook]_vars

(***************************************************************************)
(* The corpus, and the search and warmup entry points of search.js         *)
(***************************************************************************)
WriteDoc(p, m, text) ==
  /\ corpus.files[p] # [mtimeMs |-> m, text |-> text, readable |-> TRUE]
  /\ corpus' = [corpus EXCEPT !.files[p] =
                  [mtimeMs |-> m, text |-> text, readable |-> TRUE]]
  /\ obs' = [NoObs EXCEPT !.op = "write"]
  /\ UNCHANGED <<cacheFile, seen>>
  /\ UNCHANGED <<lifeVars, direct, digest, race>>

DeleteDoc(p) ==
  /\ Exists(corpus.files[p])
  /\ corpus' = [corpus EXCEPT !.files[p] = NoDoc]
  /\ obs' = [NoObs EXCEPT !.op = "delete"]
  /\ UNCHANGED <<cacheFile, seen>>
  /\ UNCHANGED <<lifeVars, direct, digest, race>>

\* chmod: the document can no longer be read; its timestamp stays.
MakeUnreadable(p) ==
  /\ Exists(corpus.files[p])
  /\ corpus.files[p].readable
  /\ corpus' = [corpus EXCEPT !.files[p].readable = FALSE]
  /\ obs' = [NoObs EXCEPT !.op = "chmod"]
  /\ UNCHANGED <<cacheFile, seen>>
  /\ UNCHANGED <<lifeVars, direct, digest, race>>

\* The filler notes are copied into, or removed from, the memory directory.
SetFillers(n) ==
  /\ corpus.bulk # n
  /\ corpus' = [corpus EXCEPT !.bulk = n]
  /\ obs' = [NoObs EXCEPT !.op = "fillers"]
  /\ UNCHANGED <<cacheFile, seen>>
  /\ UNCHANGED <<lifeVars, direct, digest, race>>

\* The cache file is lost or overwritten from outside: absent, not JSON, or
\* JSON without a files object ({} , null, [], {"version":1}).
DamageCache(kind) ==
  /\ cacheFile.kind # kind
  /\ cacheFile' = [kind |-> kind, cache |-> EmptyCache]
  /\ seen' = ZeroSeen
  /\ obs' = [NoObs EXCEPT !.op = "damage"]
  /\ UNCHANGED corpus
  /\ UNCHANGED <<lifeVars, direct, digest, race>>

\* The timestamp found for each document handled, -1 for a document that
\* could not be read, 0 for one that is not in the corpus.
SeenBy(r) ==
  IF r.scanned
  THEN [files |-> [p \in Paths |-> IF p \in r.ok THEN corpus.files[p].mtimeMs
                                   ELSE IF Exists(corpus.files[p]) THEN -1
                                   ELSE 0],
        bulk |-> corpus.bulk]
  ELSE seen

Observed(op, query, opts, r) ==
  [op |-> op, query |-> query, opts |-> opts, listed |-> r.listed,
   scanned |-> r.scanned, reads |-> r.reads,
   bulkReads |-> r.bulkReads, wrote |-> r.wrote, error |-> r.error,
   results |-> r.results, pre |-> [cacheFile |-> cacheFile, seen |-> seen]]

Search(query, opts) ==
  LET r == searchMemory(query, opts, corpus, cacheFile)
  IN  /\ cacheFile' = r.cacheFile
      /\ seen' = SeenBy(r)
      /\ obs' = Observed("search", query, opts, r)
      /\ UNCHANGED corpus
      /\ UNCHANGED <<lifeVars, direct, digest, race>>

Warm ==
  LET r == warmSearchCache(corpus, cacheFile)
  IN  /\ cacheFile' = r.cacheFile
      /\ seen' = SeenBy(r)
      /\ obs' = Observed("warm", << >>, DefaultOptions, r)
      /\ UNCHANGED corpus
      /\ UNCHANGED <<lifeVars, direct, digest, race>>

NextCache ==
  \/ \E p \in Paths, m \in Mtimes, text \in Texts : WriteDoc(p, m, text)
  \/ \E p \in Paths : DeleteDoc(p)
  \/ MakeUnreadable("p1")
  \/ \E n \in {0, FillerCount} : SetFillers(n)
  \/ \E kind \in {"missing", "garbage", "noFiles"} : DamageCache(kind)
  \/ \E query \in Queries, opts \in SearchOptions : Search(query, opts)
  \/ Warm

SpecCache == Init /\ [][NextCache]_vars

(***************************************************************************)
(* Direct calls of the exported functions (module.exports._internals)      *)
(***************************************************************************)
RECURSIVE SeqsUpTo(_, _)
SeqsUpTo(S, n) ==
  IF n = 0 THEN { << >> }
  ELSE LET shorter == SeqsUpTo(S, n - 1)
       IN  shorter \cup { Append(q, x) : q \in { r \in shorter : Len(r) = n - 1 }, x \in S }

QueryWords == Words \cup { "the" }

\* Chunks by the occurrences of each word: none, one, or (for two of the
\* words) twelve, where the repetition bonus reaches its cap.
ChunkSamples ==
  { [len |-> 40, w |-> w] :
      w \in { f \in [Words -> {0, 1, 12}] : f["backup"] < 12 /\ f["nightly"] < 12 } }

\* Paragraphs around the length cap, a heading, a paragraph of whitespace,
\* and a text of 300 short sections.
ParaSamples ==
  { Para(FALSE, 500, NoWords), Para(FALSE, 700, NoWords),
    Para(FALSE, MAX_CHUNK_LEN, NoWords), Para(FALSE, 1300, NoWords),
    Para(TRUE, 30, NoWords), BlankPara(3) }
TextManyHeadings == [i \in 1..300 |-> Para(TRUE, 12, NoWords)]

Call(fn, args) == [fn |-> fn, args |-> args, done |-> FALSE, result |-> << >>]

\* The calls with at most maxChunks candidate chunks, at most maxWords
\* words in the query and at most maxParas paragraphs in a text.
Calls(maxChunks, maxWords, maxParas) ==
  { Call("buildInjectionSection", chunks) : chunks \in SeqsUpTo(Snippets, maxChunks) }
  \cup { Call("scoreChunk", [query |-> q, chunk |-> ch]) :
           q \in SeqsUpTo(QueryWords, maxWords) \ { << >> }, ch \in ChunkSamples }
  \cup { Call("getMemoryFiles", tree) : tree \in SUBSET TreeEntries }
  \cup { Call("splitIntoChunks", text) :
           text \in SeqsUpTo(ParaSamples, maxParas) \cup { TextManyHeadings } }

InitCall ==
  /\ now = StartHour
  /\ mstate = DefaultMaintenanceState
  /\ daily = << >>
  /\ core = CoreSmall
  /\ archive = << >>
  /\ latest = [s \in LifeKeys |-> NoMsg]
  /\ processed = {}
  /\ last = NoEvent
  /\ corpus = [files |-> [p \in Paths |-> NoDoc], bulk |-> 0]
  /\ cacheFile = MissingCacheFile
  /\ seen = ZeroSeen
  /\ obs = NoObs
  /\ direct \in Calls(MaxChunks, MaxQueryWords, MaxParas)
  /\ digest = NoDigest
  /\ race = NoRace

Return(result) ==
  /\ direct' = [direct EXCEPT !.done = TRUE, !.result = result]
  /\ UNCHANGED <<lifeVars, cacheVars, digest, race>>

BuildSection ==
  /\ direct.fn = "buildInjectionSection" /\ ~direct.done
  /\ Return(buildInjectionSection(direct.args))

\* scoreChunk on the keywords of a query, as vectorSearchFiles calls it.
ScoreQuery ==
  /\ direct.fn = "scoreChunk" /\ ~direct.done
  /\ LET keywords == extractKeywords(direct.args.query)
     IN  Return([keywords |-> keywords,
                 score |-> scoreChunk(keywords, direct.args.chunk)])

ScanRoot ==
  /\ direct.fn = "getMemoryFiles" /\ ~direct.done
  /\ Return(ScanTree(direct.args))

SplitText ==
  /\ direct.fn = "splitIntoChunks" /\ ~direct.done
  /\ Return(splitIntoChunks(direct.args))

NextCall == BuildSection \/ ScoreQuery \/ ScanRoot \/ SplitText

SpecCall == InitCall /\ [][NextCall]_vars

(***************************************************************************)
(* The session digest: transcripts change, the digest is refreshed         *)
(***************************************************************************)
InitDigest ==
  /\ now = StartHour
  /\ mstate = DefaultMaintenanceState
  /\ daily = << >>
  /\ core = CoreSmall
  /\ archive = << >>
  /\ latest = [s \in LifeKeys |-> NoMsg]
  /\ processed = {}
  /\ last = NoEvent
  /\ corpus = [files |-> [p \in Paths |-> NoDoc], bulk |-> 0]
  /\ cacheFile = MissingCacheFile
  /\ seen = ZeroSeen
  /\ obs = NoObs
  /\ direct = NoCall
  /\ digest = NoDigest
  /\ race = NoRace

DigestStep(d) ==
  /\ digest' = d
  /\ UNCHANGED <<lifeVars, cacheVars, direct, race>>

\* The host appends to a session's transcript, creating the sessions
\* directory and the file as needed.
WriteTranscript(i, kind) ==
  /\ digest.sessions[i].mtimeMs < MaxMtime
  /\ DigestStep([digest EXCEPT
       !.dir = TRUE,
       !.sessions[i] = [mtimeMs |-> digest.sessions[i].mtimeMs + 1, kind |-> kind],
       !.ev = [NoDigestEvent EXCEPT !.op = "write", !.prevOp = digest.ev.op]])

\* The host retires a session: its transcript leaves the listing.
RetireTranscript(i) ==
  /\ digest.sessions[i].mtimeMs > 0
  /\ digest.sessions[i].mtimeMs < MaxMtime
  /\ DigestStep([digest EXCEPT
       !.sessions[i] = NoTranscript,
       !.ev = [NoDigestEvent EXCEPT !.op = "retire", !.prevOp = digest.ev.op]])

\* handler.js calls refreshSessionDigest() at startup and at new / reset;
\* each call reads the clock later than the calls before it.
RefreshDigest ==
  /\ digest.clock < MaxClock
  /\ DigestStep(refreshSessionDigest(digest, digest.clock + 1, DIGEST_SESSIONS))

NextDigest ==
  \/ \E i \in 1..Len(TranscriptNames), kind \in TranscriptKinds : WriteTranscript(i, kind)
  \/ \E i \in 1..Len(TranscriptNames) : RetireTranscript(i)
  \/ RefreshDigest

SpecDigest == InitDigest /\ [][NextDigest]_vars

(***************************************************************************)
(* Two processes working on the same files                                 *)
(***************************************************************************)
InitRace ==
  /\ now = StartHour
  /\ mstate = DefaultMaintenanceState
  /\ daily = << >>
  /\ core = CoreSmall
  /\ archive = << >>
  /\ latest = [s \in LifeKeys |-> NoMsg]
  /\ processed = {}
  /\ last = NoEvent
  /\ corpus = [files |-> [p \in Paths |-> NoDoc], bulk |-> 0]
  /\ cacheFile = MissingCacheFile
  /\ seen = ZeroSeen
  /\ obs = NoObs
  /\ direct = NoCall
  /\ digest = NoDigest
  /\ \E scn \in Scenarios, present \in BOOLEAN :
       \E content \in { IF scn = "optimizeCoreMemoryFiles" THEN OriginalCore
                         ELSE IF present THEN Previous ELSE << >> } :
         race = [NoRace EXCEPT
                   !.scn = scn,
                   !.ino[TargetOf(scn)] = IF content # << >> THEN 1 ELSE 0,
                   !.data[1] = content,
                   !.initial = content]

RaceStep(r) ==
  /\ race' = r
  /\ UNCHANGED <<lifeVars, cacheVars, direct, digest>>

\* Date.now() / new Date(): never earlier than a reading taken before.
ClockReadings == { t \in 1..MaxStamp : t >= race.clock }

\* saveCache and saveMaintenanceState: the temporary name is taken from
\* the clock.
SaveBegin(k) ==
  /\ race.scn \in { "saveCache", "saveMaintenanceState" }
  /\ race.p[k].pc = "start"
  /\ \E t \in ClockReadings :
       RaceStep([race EXCEPT !.clock = t, !.p[k].stamp = t,
                             !.p[k].tmp = TmpStamped(t),
                             !.p[k].out = SaveContent(k),
                             !.p[k].pc = "open"])

\* injectMemoryChunks: read the dated document, return 0 when the session's
\* marker is in it, else prepare the document with the section appended.
InjectRead(k) ==
  /\ race.scn = "injectMemoryChunks"
  /\ race.p[k].pc = "start"
  /\ LET existing == ContentOf(race, "dated")
     IN  IF \E i \in 1..Len(existing) : existing[i] = SectionOf(k)
         THEN RaceStep([race EXCEPT !.p[k].buf = existing, !.p[k].ret = "0",
                                    !.p[k].pc = "done"])
         ELSE RaceStep([race EXCEPT !.p[k].buf = existing,
                                    !.p[k].tmp = TmpRandom(k),
                                    !.p[k].out = Append(existing, SectionOf(k)),
                                    !.p[k].ret = "injected",
                                    !.p[k].pc = "open"])

\* optimizeCoreMemoryFiles: the signals, then the stamp of the snapshots.
OptimizeSignals(k) ==
  /\ race.scn = "optimizeCoreMemoryFiles"
  /\ race.p[k].pc = "start"
  /\ IF ~CoreBloated(ContentOf(race, "core"))
     THEN RaceStep([race EXCEPT !.p[k].ret = "nothing_to_optimize",
                                !.p[k].pc = "done"])
     ELSE \E t \in ClockReadings :
            RaceStep([race EXCEPT !.clock = t, !.p[k].stamp = t,
                                  !.p[k].pc = "raw"])

OptimizeRead(k) ==
  /\ race.p[k].pc = "raw"
  /\ RaceStep([race EXCEPT !.p[k].buf = ContentOf(race, "core"),
                           !.p[k].pc = "archiveOpen"])

\* fsp.writeFile(archivePath, raw): written in place, no temporary file.
ArchiveOpen(k) ==
  /\ race.p[k].pc = "archiveOpen"
  /\ RaceStep([OpenTrunc(race, k, ArchivePath(race.p[k].stamp))
                 EXCEPT !.p[k].pc = "archiveWrite"])

ArchiveWrite(k) ==
  /\ race.p[k].pc = "archiveWrite"
  /\ RaceStep([WriteFd(race, k, race.p[k].buf)
                 EXCEPT !.p[k].tmp = TmpRandom(k),
                        !.p[k].out = CompactOf(race.p[k].buf),
                        !.p[k].pc = "open"])

\* The three steps of writing a file through a temporary one.
TmpOpen(k) ==
  /\ race.p[k].pc = "open"
  /\ RaceStep([OpenTrunc(race, k, race.p[k].tmp) EXCEPT !.p[k].pc = "write"])

TmpWrite(k) ==
  /\ race.p[k].pc = "write"
  /\ RaceStep([WriteFd(race, k, race.p[k].out) EXCEPT !.p[k].pc = "rename"])

TmpRename(k) ==
  /\ race.p[k].pc = "rename"
  /\ RaceStep(RenamePath(race, k, race.p[k].tmp, TargetOf(race.scn)))

\* Another process reads the file the writers are replacing.
ReadTarget ==
  /\ race.scn \in Scenarios \ { "optimizeCoreMemoryFiles" }
  /\ race.ino[TargetOf(race.scn)] # 0
  /\ RaceStep([race EXCEPT !.seen = ContentOf(race, TargetOf(race.scn))])

NextRace ==
  \/ \E k \in Procs : SaveBegin(k)
  \/ \E k \in Procs : InjectRead(k)
  \/ \E k \in Procs : OptimizeSignals(k)
  \/ \E k \in Procs : OptimizeRead(k)
  \/ \E k \in Procs : ArchiveOpen(k)
  \/ \E k \in Procs : ArchiveWrite(k)
  \/ \E k \in Procs : TmpOpen(k)
  \/ \E k \in Procs : TmpWrite(k)
  \/ \E k \in Procs : TmpRename(k)
  \/ ReadTarget

SpecRace == InitRace /\ [][NextRace]_vars

(***************************************************************************)
(* Direct calls of the two functions that rewrite the dated document       *)
(***************************************************************************)
\* The documents of at most maxParts parts.
RECURSIVE Flatten(_)
Flatten(parts) ==
  IF parts = << >> THEN << >> ELSE Head(parts) \o Flatten(Tail(parts))

TextCalls(maxParts) ==
  { Call(fn, Flatten(parts)) :
      fn \in { "compactDailyMemoryForStartup", "clearMaintenancePromptFromDaily" },
      parts \in SeqsUpTo(TextParts, maxParts) }

InitText ==
  /\ now = StartHour
  /\ mstate = DefaultMaintenanceState
  /\ daily = << >>
  /\ core = CoreSmall
  /\ archive = << >>
  /\ latest = [s \in LifeKeys |-> NoMsg]
  /\ processed = {}
  /\ last = NoEvent
  /\ corpus = [files |-> [p \in Paths |-> NoDoc], bulk |-> 0]
  /\ cacheFile = MissingCacheFile
  /\ seen = ZeroSeen
  /\ obs = NoObs
  /\ direct \in TextCalls(MaxParts)
  /\ digest = NoDigest
  /\ race = NoRace

CompactText ==
  /\ direct.fn = "compactDailyMemoryForStartup" /\ ~direct.done
  /\ Return(compactDailyMemoryText(direct.args))

ClearPromptText ==
  /\ direct.fn = "clearMaintenancePromptFromDaily" /\ ~direct.done
  /\ Return(clearMaintenancePromptText(direct.args))

NextText == CompactText \/ ClearPromptText

SpecText == InitText /\ [][NextText]_vars

(***************************************************************************)
(* Properties                                                              *)
(***************************************************************************)
\* Snapshots written by the most recent event.
AddedSnapshot(type, content) ==
  \E i \in (Len(last.pre.archive) + 1)..Len(archive) :
    archive[i].type = type /\ archive[i].content = content

AddedSnapshotOfType(type) ==
  \E i \in (Len(last.pre.archive) + 1)..Len(archive) : archive[i].type = type

PendingTurn == last.op = "turn" /\ last.pending

C4_Original ==
  (PendingTurn /\ last.msg = MsgDeclineSpec) =>
    /\ ~mstate.pendingConsent
    /\ mstate.snoozeUntil >= now + SNOOZE_HOURS
    /\ ~last.optRan

\* C4 (amended): "no, not now" names no optimization/memory term, so it is
\* not an explicit decline: the maintenance state stays as it was
\* (prompt_pending, no snooze deadline), the notice stays in the dated
\* document, and nothing is compacted or archived.
C4_NoNotNowLeavesPending ==
  (PendingTurn /\ last.msg = MsgDeclineSpec) =>
    /\ last.branch = "none"
    /\ mstate = last.pre.mstate
    /\ mstate.pendingConsent
    /\ ~last.optRan
    /\ core = last.pre.core
    /\ archive = last.pre.archive
    /\ HasKind(last.pre.daily, "maint") => HasKind(daily, "maint")

C4_Witness ==
  /\ PendingTurn
  /\ last.msg = MsgDeclineSpec
  /\ HasKind(daily, "maint")

C6_DeclineSnoozes ==
  (PendingTurn /\ isExplicitMemoryOptimizationDecline(last.msg)) =>
    /\ ~HasKind(daily, "maint")
    /\ ~mstate.pendingConsent
    /\ mstate.snoozeUntil = now + SNOOZE_HOURS
    /\ ~last.optRan

\* C7: whenever the optimization rewrites the core document or compacts the
\* dated document, a snapshot holding that document's full content from
\* before the rewrite was written first; when the snapshot is not written,
\* the document is not rewritten.
Before(steps, a, b) ==
  \E i, j \in 1..Len(steps) : i < j /\ steps[i] = a /\ steps[j] = b

Did(step) == \E i \in 1..Len(last.steps) : last.steps[i] = step

C7_ArchiveBeforeCompact ==
  last.optRan =>
    /\ Did("rewriteCore") =>
         /\ Before(last.steps, "archiveCore", "rewriteCore")
         /\ AddedSnapshot("MEMORY", last.pre.core)
    /\ Did("compactDaily") =>
         /\ Before(last.steps, "archiveDaily", "compactDaily")
         /\ AddedSnapshot("daily", last.pre.daily)
    /\ core # last.pre.core => AddedSnapshot("MEMORY", last.pre.core)
    /\ ~AddedSnapshotOfType("MEMORY") => core = last.pre.core
    /\ ~AddedSnapshotOfType("daily") =>
         /\ ~Did("compactDaily")
         /\ SelectSeq2(daily, {"inj"}) \in
              { SelectSeq2(last.pre.daily, {"inj"}),
                Append(SelectSeq2(last.pre.daily, {"inj"}),
                       InjPart(last.session, last.injected)) }

C7_Witness ==
  /\ last.optRan
  /\ Did("rewriteCore")
  /\ Did("compactDaily")
  /\ core # last.pre.core
  /\ SelectSeq2(daily, {"inj"}) # SelectSeq2(last.pre.daily, {"inj"})

StructuralSummary(raw) ==
  LET h == SelectSeq2(raw, {"h"})
  IN  IF h # << >> THEN FirstN(h, SUMMARY_MAX_LINES)
      ELSE << Line("t", Min(Max(FlatLen(raw), 29), FALLBACK_CHARS)) >>

HookCall == last.op = "hook" /\ last.outcome = "injected"

C2_InjectionIdempotent ==
  HookCall =>
    /\ ~HasMarker(last.pre.daily, escapeMarker(last.session)) =>
         /\ last.injected > 0
         /\ daily = Append(last.pre.daily, InjPart(last.session, last.injected))
    /\ ( /\ last.prev.op = "hook"
         /\ last.prev.outcome = "injected"
         /\ last.prev.session = last.session ) =>
         /\ last.injected = 0
         /\ daily = last.pre.daily

C2_Witness ==
  /\ HookCall
  /\ last.prev.op = "hook"
  /\ last.prev.session = last.session
  /\ last.prev.injected > 0
  /\ last.injected = 0
  /\ daily = last.pre.daily

\* A document or the filler block is unchanged when the timestamp the last
\* cache-touching call found for it is its timestamp now.
UnchangedDoc(p) ==
  /\ Exists(corpus.files[p])
  /\ obs.pre.seen.files[p] = corpus.files[p].mtimeMs

UnchangedCorpus ==
  /\ \A p \in Paths : obs.pre.seen.files[p] = corpus.files[p].mtimeMs
  /\ obs.pre.seen.bulk = corpus.bulk

Retained(p) ==
  /\ obs.pre.cacheFile.kind = "valid"
  /\ HasEntry(obs.pre.cacheFile.cache, p)
  /\ Entry(obs.pre.cacheFile.cache, p).mtimeMs = corpus.files[p].mtimeMs

FillersRetained ==
  /\ obs.pre.cacheFile.kind = "valid"
  /\ obs.pre.cacheFile.cache.bulk = corpus.bulk

ScanningSearch == obs.op = "search" /\ obs.scanned

C9_CacheCeilings ==
  cacheFile.kind = "valid" =>
    /\ CacheCount(cacheFile.cache) <= MAX_CACHE_FILES
    /\ JsonBytes(cacheFile.cache) <= MAX_CACHE_JSON_BYTES

C9_Witness ==
  /\ obs.op \in {"search", "warm"}
  /\ obs.wrote
  /\ cacheFile.kind = "valid"
  /\ Len(getMemoryFiles(corpus)) + corpus.bulk > MAX_CACHE_FILES
  /\ \E p \in obs.reads :
       /\ EntryBytes([chunks |-> splitIntoChunks(corpus.files[p].text)])
            > MAX_CACHE_JSON_BYTES
       /\ ~HasEntry(cacheFile.cache, p)

\* C10: whatever the persisted cache file holds (nothing, text that does not
\* parse, JSON without a files object), search and warmup do what they do
\* when there is no cache file: same entries rebuilt, same results, no error.
C10_CacheCorruptionFailOpen ==
  (obs.op \in {"search", "warm"} /\ obs.pre.cacheFile.kind # "valid") =>
    LET asMissing == IF obs.op = "search"
                     THEN searchMemory(obs.query, obs.opts, corpus, MissingCacheFile)
                     ELSE warmSearchCache(corpus, MissingCacheFile)
    IN  /\ ~obs.error
        /\ obs.results = asMissing.results
        /\ obs.reads = asMissing.reads
        /\ obs.wrote = asMissing.wrote
        /\ obs.wrote => cacheFile = asMissing.cacheFile


\* The maintenance actions of the lifecycle check the last event ran.
LifecycleActions ==
  IF last.op = "startup" THEN {"warm", "digest", "bloat"}
  ELSE IF last.op = "newreset" THEN {"compact", "digest", "bloat"}
  ELSE {}

FailedAction == IF last.failed \in {"append", "save"} THEN "bloat" ELSE last.failed

\* C11: in a startup or new/reset lifecycle check, when one maintenance
\* action (cache warmup, daily compaction, digest refresh, bloat check)
\* throws, every other action of the same check still runs.
C11_LifecycleFailureIsolation ==
  (last.op \in {"startup", "newreset"} /\ last.failed # "none") =>
    \A a \in LifecycleActions \ {FailedAction} :
      \E i \in 1..Len(last.steps) : last.steps[i] = a


Returned(fn) == direct.fn = fn /\ direct.done

\* C13: for every list of candidate chunks, the rendered injection section
\* holds at most maxInjectedCharsTotal (4000) characters of snippet text in
\* total and at most maxSnippetCharsEach (800) characters of any one chunk,
\* and never more of a chunk than its snippet has.
C13_BoundedInjection ==
  Returned("buildInjectionSection") =>
    /\ SumSeq(direct.result) <= maxInjectedCharsTotal
    /\ Len(direct.result) <= Len(direct.args)
    /\ \A i \in 1..Len(direct.result) :
         /\ direct.result[i] <= maxSnippetCharsEach
         /\ direct.result[i] <= direct.args[i].len

C13_Witness ==
  /\ Returned("buildInjectionSection")
  /\ \E i \in 1..Len(direct.args) : direct.args[i].len > maxSnippetCharsEach
  /\ SumSeq(direct.result) = maxInjectedCharsTotal
  /\ \E i \in 1..Len(direct.result) :
       direct.result[i] > 0 /\ direct.result[i] < TrimSlice(direct.args[i], maxSnippetCharsEach)

\* The distinct keywords of the query that occur in the chunk.
DistinctHits ==
  { direct.result.keywords[i] : i \in 1..Len(direct.result.keywords) }
    \cap { x \in Words : direct.args.chunk.w[x] > 0 }

\* C14: for every query yielding 4 or more keywords and every chunk, the
\* score is 0 unless at least 2 distinct keywords occur in the chunk, and is
\* greater than 0 when at least 2 distinct keywords occur; a query yielding
\* fewer than 4 keywords scores above 0 as soon as one keyword occurs.
C14_CoverageGate ==
  Returned("scoreChunk") =>
    /\ Len(direct.result.keywords) >= 4 =>
         (direct.result.score > 0 <=> Cardinality(DistinctHits) >= 2)
    /\ (Len(direct.result.keywords) \in 1..3) =>
         (direct.result.score > 0 <=> Cardinality(DistinctHits) >= 1)

FilesWritten ==
  { DirEntry(<< >>, DatedName, TRUE), DirEntry(<< >>, DigestName, TRUE),
    DirEntry(<< ArchiveName >>, SnapshotName, TRUE) }

\* C15: for every state of the root directory, the scanner returns no file
\* this system writes as derived output (dated document, cross-session
\* digest, archive snapshot) and nothing under a hidden directory or an
\* archive directory.
C15_FeedbackLoopGuard ==
  Returned("getMemoryFiles") =>
    \A e \in direct.result :
      /\ e \notin FilesWritten
      /\ ~DAILY_INJECTION_RE(e.name)
      /\ \A i \in 1..Len(e.dirs) :
           e.dirs[i] # ArchiveName /\ e.dirs[i] # HiddenName


\* The dated document holds a section injected for this session key.
HasSectionOf(doc, key) ==
  \E i \in 1..Len(doc) : doc[i].k = "inj" /\ doc[i].session = key

\* C16: de-dupe is per session, not per day: a call of the injection entry
\* point with a non-empty relevant result set, for a session that has no
\* section of its own in today's dated document, injects (injected > 0),
\* whatever other sessions have injected there before.
C16_DedupePerSession ==
  (HookCall /\ ~HasSectionOf(last.pre.daily, last.session)) => last.injected > 0


\* C17: first-message processing runs once per session.  An event invokes
\* the injection handler only for a session that is not marked processed,
\* and leaves it marked, whatever the handler returned; a mark is removed
\* only by a new/reset event of that session.  Hence between two new/reset
\* events of a session the handler is invoked at most once for it.
C17_OncePerSession ==
  [][ /\ (last'.op = "turn" /\ last'.outcome # "not_called") =>
           /\ last'.session \notin processed
           /\ last'.session \in processed'
      /\ (last'.op = "turn" /\ last'.session \in processed) =>
           /\ last'.outcome = "not_called"
           /\ last'.session \in processed'
      /\ \A s \in processed \ processed' :
           last'.op = "newreset" /\ last'.session = s ]_vars

C17_Witness ==
  /\ last.op = "turn"
  /\ last.wasProcessed
  /\ last.msg # NoMsg
  /\ last.outcome = "not_called"
  /\ last.session \in processed


\* C18: a new/reset event of session S starts a new epoch: S is no longer
\* marked processed and no injection section remains in the dated document;
\* the next command of S, once a first message is there, invokes the
\* injection handler, and with a non-empty relevant result set it injects
\* (injected > 0) although S had injected earlier the same day.
C18_NewSessionEpoch ==
  /\ last.op = "newreset" =>
       /\ last.session \notin processed
       /\ ~HasKind(daily, "inj")
  /\ (last.op = "turn" /\ last.fresh /\ last.msg # NoMsg) =>
       /\ last.outcome # "not_called"
       /\ last.outcome = "injected" =>
            /\ last.injected > 0
            /\ HasSectionOf(daily, last.session)

C18_Witness ==
  /\ last.op = "turn"
  /\ last.fresh
  /\ last.injected > 0
  /\ HasKind(last.pre.daily, "digest")
  /\ HasSectionOf(daily, last.session)


CountKind(doc, kind) == Len(SelectSeq2(doc, {kind}))

\* C19: after every new or reset event the dated document contains no
\* injection section and at most one digest section; when injection
\* sections were present, they and any prior digest are replaced by exactly
\* one digest compacting all of them, and the user's text is kept.
C19_CompactionOnNewReset ==
  last.op = "newreset" =>
    /\ ~HasKind(daily, "inj")
    /\ CountKind(daily, "digest") <= 1
    /\ HasKind(last.pre.daily, "inj") =>
         /\ CountKind(daily, "digest") = 1
         /\ \E i \in 1..Len(daily) :
              /\ daily[i].k = "digest"
              /\ daily[i].n = CountKind(last.pre.daily, "inj")
         /\ SelectSeq2(daily, {"user"}) = SelectSeq2(last.pre.daily, {"user"})

C19_Witness ==
  /\ last.op = "newreset"
  /\ CountKind(last.pre.daily, "inj") >= 2
  /\ HasKind(last.pre.daily, "digest")
  /\ CountKind(daily, "digest") = 1
  /\ ~HasKind(daily, "inj")

\* The dated document as the bloat check of the last lifecycle event found
\* it: a new or reset event compacts the document first (handler.js 228-233),
\* a startup event does not.
CheckedDaily ==
  IF last.op = "newreset" THEN compactDailyMemoryForStartup(last.pre.daily)
  ELSE last.pre.daily

\* The last event moved the state from not-pending to prompt_pending and
\* appended the maintenance notice to the dated document.
BecamePending ==
  /\ ~last.pre.mstate.pendingConsent
  /\ mstate.pendingConsent
  /\ mstate.lastPromptAt = now
  /\ daily = Append(CheckedDaily, MaintPart)

C21_SnoozeSuppressesPrompt ==
  /\ mstate.snoozeUntil > 0 =>
        /\ mstate.snoozeUntil = mstate.declinedAt + SNOOZE_HOURS
        /\ now < mstate.snoozeUntil => ~mstate.pendingConsent
  /\ last.op \in {"startup", "newreset"} =>
        /\ now < last.pre.mstate.snoozeUntil =>
              /\ mstate = last.pre.mstate
              /\ ~mstate.pendingConsent
              /\ daily = CheckedDaily
              /\ ~HasKind(daily, "maint")
        /\ BecamePending => now >= last.pre.mstate.snoozeUntil

\* A lifecycle event inside the snooze window finds a document over its
\* threshold and does not prompt.
C21_Witness ==
  /\ last.op \in {"startup", "newreset"}
  /\ now < last.pre.mstate.snoozeUntil
  /\ last.pre.mstate.declinedAt = now
  /\ getMemoryMaintenanceSignals(last.pre.core, CheckedDaily).anyBloated
  /\ ~mstate.pendingConsent
  /\ ~HasKind(daily, "maint")

\* C22: while the state is prompt_pending, a turn whose latest user message
\* matches neither the consent nor the decline pattern leaves the maintenance
\* state, the maintenance notice, the core document and the archive unchanged.
C22_OtherMessageLeavesPending ==
  ( /\ PendingTurn
    /\ ~isExplicitMemoryOptimizationConsent(last.msg)
    /\ ~isExplicitMemoryOptimizationDecline(last.msg) ) =>
    /\ last.branch = "none"
    /\ ~last.optRan
    /\ mstate = last.pre.mstate
    /\ mstate.pendingConsent
    /\ core = last.pre.core
    /\ archive = last.pre.archive
    /\ SelectSeq2(daily, {"maint"}) = SelectSeq2(last.pre.daily, {"maint"})

\* A pending turn with a message that matches neither pattern, the notice in
\* the dated document and an injection made by the same turn.
C22_Witness ==
  /\ PendingTurn
  /\ last.msg = MsgDeclineSpec
  /\ ~isExplicitMemoryOptimizationConsent(last.msg)
  /\ ~isExplicitMemoryOptimizationDecline(last.msg)
  /\ HasKind(last.pre.daily, "maint")
  /\ HasKind(daily, "maint")
  /\ last.injected > 0
  /\ mstate.pendingConsent

\* The chunks of document p as the corpus has them now.
CorpusChunks(p) ==
  IF Exists(corpus.files[p]) THEN splitIntoChunks(corpus.files[p].text)
  ELSE << >>

\* The chunks the last search held for document p: those cached under the
\* document's current timestamp, otherwise those of its text if it can be
\* read (search.js 245-255; an unreadable document is skipped, 267-269).
HeldChunks(p) ==
  LET cf  == obs.pre.cacheFile
      doc == corpus.files[p]
  IN  IF ~Exists(doc) THEN << >>
      ELSE IF /\ cf.kind = "valid"
              /\ HasEntry(cf.cache, p)
              /\ Entry(cf.cache, p).mtimeMs = doc.mtimeMs
      THEN Entry(cf.cache, p).chunks
      ELSE IF doc.readable THEN splitIntoChunks(doc.text)
      ELSE << >>

\* The chunks c1 of the first and c2 of the second document, in scan order,
\* that score at least the last search's min_score.  (The filler notes hold
\* no word of any query and score 0.)
Eligible(c1, c2) ==
  LET kw == extractKeywords(obs.query)
  IN  ScoreChunks(PathOrder[1], c1, 1, kw, obs.opts.minScore)
        \o ScoreChunks(PathOrder[2], c2, 1, kw, obs.opts.minScore)

PosIn(ref, x) == CHOOSE j \in 1..Len(ref) : ref[j] = x

\* res is the first max elements of ref ordered by score descending, ties in
\* the order of ref.
IsRankingOf(res, ref, max) ==
  /\ Len(res) = Min(Len(ref), max)
  /\ \A i \in 1..Len(res) : \E j \in 1..Len(ref) : ref[j] = res[i]
  /\ \A i, j \in 1..Len(res) :
        i < j => /\ res[i] # res[j]
                 /\ res[i].score >= res[j].score
                 /\ res[i].score = res[j].score =>
                      PosIn(ref, res[i]) < PosIn(ref, res[j])
  /\ \A j \in 1..Len(ref) :
        (\A i \in 1..Len(res) : res[i] # ref[j]) =>
          \A i \in 1..Len(res) :
            \/ res[i].score > ref[j].score
            \/ res[i].score = ref[j].score /\ PosIn(ref, res[i]) < j

KeywordSearch == obs.op = "search" /\ extractKeywords(obs.query) # << >>

MalformedSearch ==
  /\ obs.op = "search"
  /\ \/ QueryLength(obs.query) < MIN_QUERY_LEN
     \/ extractKeywords(obs.query) = << >>

\* What a malformed query leaves alone in either reading: no result, no
\* error, no document examined or read, the cache file as it was.
NothingRead ==
  /\ obs.results = << >>
  /\ ~obs.error
  /\ ~obs.scanned
  /\ obs.reads = {}
  /\ obs.bulkReads = 0
  /\ ~obs.wrote
  /\ cacheFile = obs.pre.cacheFile
  /\ seen = obs.pre.seen

\* C24, as stated: a query shorter than 3 characters or without keywords
\* returns the empty list, raises no error, does not scan the corpus or read
\* a document, and does not write the cache.
C24_Original ==
  MalformedSearch => (NothingRead /\ ~obs.listed)

\* C24, amended: such a query returns the empty list, raises no error, reads
\* no document and leaves the cache file as it is; the memory directory is
\* listed exactly when the query has at least 3 characters.
C24_MalformedQueryReadsNoDocument ==
  MalformedSearch =>
    /\ NothingRead
    /\ obs.listed <=> QueryLength(obs.query) >= MIN_QUERY_LEN

\* A query of stop words only, over a corpus holding a document the cache
\* has no entry for, with a cache file that has no files object.
C24_Witness ==
  /\ MalformedSearch
  /\ QueryLength(obs.query) >= MIN_QUERY_LEN
  /\ obs.query # << >>
  /\ \E p \in Paths : Exists(corpus.files[p]) /\ corpus.files[p].readable
  /\ obs.pre.cacheFile.kind = "noFiles"
  /\ obs.listed
  /\ NothingRead

\* C25: no chunk is longer than the length cap unless it is a single source
\* paragraph that alone exceeds the cap, and no text yields more than 200
\* chunks.
C25_ChunkBound ==
  Returned("splitIntoChunks") =>
    /\ Len(direct.result) <= MAX_CHUNKS_PER_FILE
    /\ \A i \in 1..Len(direct.result) :
          direct.result[i].len > MAX_CHUNK_LEN =>
            /\ direct.result[i].n = 1
            /\ \E j \in 1..Len(direct.args) :
                  /\ direct.args[j].len = direct.result[i].len
                  /\ direct.args[j].len > MAX_CHUNK_LEN

\* A text split into a chunk joined from two paragraphs and a chunk that is
\* one oversized paragraph.
C25_Witness ==
  /\ Returned("splitIntoChunks")
  /\ \E i \in 1..Len(direct.result) :
        direct.result[i].len > MAX_CHUNK_LEN /\ direct.result[i].n = 1
  /\ \E i \in 1..Len(direct.result) :
        direct.result[i].n = 2 /\ direct.result[i].len <= MAX_CHUNK_LEN

\* C26: the score is in [0,1]; it is 0 for an empty keyword list; when the
\* coverage gate passes it is min(1, 0.85 * hits/n + 0.3 * bonus/n), hits
\* counting the keywords with at least one match and bonus summing a
\* per-keyword repetition bonus of at most 0.5.  (Units of 1/10000.)
C26_ScoreFormula ==
  Returned("scoreChunk") =>
    LET kw    == direct.result.keywords
        ch    == direct.args.chunk
        sc    == direct.result.score
        n     == Len(kw)
        Matched(i) == Occurrences(ch, kw[i]) >= 1
        hits  == Cardinality({ i \in 1..n : Matched(i) })
        each  == [i \in 1..n |-> IF Matched(i)
                                  THEN RepeatBonus(Occurrences(ch, kw[i])) ELSE 0]
        bonus == SumSeq(each)
    IN  /\ 0 <= sc /\ sc <= 10000
        /\ n = 0 => sc = 0
        /\ \A i \in 1..n : each[i] <= 5000
        /\ (n > 0 /\ ~(n >= 4 /\ hits < 2)) =>
             sc = Min(10000, (8500 * hits + (3 * bonus) \div 10) \div n)

\* Four keywords, two of them matched, one of those often enough for the
\* capped bonus: the gate passes and the score is strictly between 0 and 1.
C26_Witness ==
  /\ Returned("scoreChunk")
  /\ Len(direct.result.keywords) = 4
  /\ Cardinality({ i \in 1..4 :
                     Occurrences(direct.args.chunk, direct.result.keywords[i]) >= 1 }) = 2
  /\ \E i \in 1..4 :
        Occurrences(direct.args.chunk, direct.result.keywords[i]) = 12
  /\ direct.result.score > 0
  /\ direct.result.score < 10000


\* C27: a refresh that writes the digest writes content that differs from
\* the stored digest, and a refresh that does not write leaves the digest
\* and its state as they were; of two refreshes with no change of the
\* transcripts between them, the second writes nothing; a digest on disk
\* has at most 8000 characters.
C27_DigestWrittenOnlyOnChange ==
  /\ digest.file.len <= DIGEST_LIMIT
  /\ digest.ev.op = "refresh" =>
       /\ digest.ev.wrote => digest.file # digest.ev.pre.file
       /\ ~digest.ev.wrote => /\ digest.file = digest.ev.pre.file
                              /\ digest.fileMtimes = digest.ev.pre.fileMtimes
       /\ digest.ev.prevOp = "refresh" => ~digest.ev.wrote

\* The second of two refreshes in a row finds the transcripts as the first,
\* which wrote the digest, recorded them.
C27_Witness ==
  /\ digest.ev.op = "refresh" /\ digest.ev.prevOp = "refresh"
  /\ digest.ev.reason = "unchanged" /\ digest.ev.sessions = 2
  /\ digest.file.updated = digest.clock - 1
  /\ digest.file.len > DIGEST_MAX_BODY



\* The complete contents the scenario's file has or gets: the previous one
\* and what each writer means to write.
CompleteContents ==
  IF race.scn = "injectMemoryChunks"
  THEN LET one == { Append(race.initial, SectionOf(k)) : k \in Procs }
       IN  { race.initial } \cup one
             \cup { Append(x, SectionOf(k)) : x \in one, k \in Procs }
  ELSE { race.initial } \cup { SaveContent(k) : k \in Procs }

\* C28: whatever a reader finds in the dated document, the cache file or
\* the maintenance-state file while two writers are at work is a complete
\* content: the previous one or one a writer wrote.
C28_ReaderSeesCompleteContent ==
  race.seen # << "unread" >> => race.seen \in CompleteContents

\* C29: once two injections of different sessions into the same dated
\* document are both complete, the section of each session whose injection
\* returned a positive count is in the document.
C29_BothSectionsPresent ==
  (race.scn = "injectMemoryChunks" /\ \A k \in Procs : race.p[k].pc = "done") =>
    \A k \in Procs :
      race.p[k].ret = "injected" =>
        \E i \in 1..Len(ContentOf(race, "dated")) :
          ContentOf(race, "dated")[i] = SectionOf(k)

\* C30: once two optimizations of the same bloated MEMORY.md are both
\* complete, a snapshot in the archive equals the original MEMORY.md.
C30_OriginalStillArchived ==
  (race.scn = "optimizeCoreMemoryFiles" /\ \A k \in Procs : race.p[k].pc = "done") =>
    \E q \in ArchivePaths : ContentOf(race, q) = OriginalCore

\* The cache the last search or warmup loaded.
LoadedCache == loadCache(obs.pre.cacheFile).cache

\* Document p is in the corpus and can be read.
ReadablePath(p) == Exists(corpus.files[p]) /\ corpus.files[p].readable

\* The loaded cache has no entry for p, or one under another timestamp.
StaleIn(c, p) ==
  ~HasEntry(c, p) \/ Entry(c, p).mtimeMs # corpus.files[p].mtimeMs

FreshEntry(p) ==
  [key |-> p, mtimeMs |-> corpus.files[p].mtimeMs,
   chunks |-> splitIntoChunks(corpus.files[p].text)]

\* C31: in a search or warmup that examines the documents, a readable
\* document is read and chunked exactly when the loaded cache has no entry
\* for it or an entry under another timestamp; the results of the same call
\* are scored on the chunks just built for a document that was read and on
\* the stored chunks otherwise, and the entry the call leaves in the cache
\* file is the new one in the first case and the stored one in the second.
C31_StalenessRule ==
  obs.scanned =>
    \A p \in Paths :
      ReadablePath(p) =>
        LET stale == StaleIn(LoadedCache, p)
            used  == IF stale THEN FreshEntry(p) ELSE Entry(LoadedCache, p)
        IN  /\ p \in obs.reads <=> stale
            /\ \A i \in 1..Len(obs.results) :
                 obs.results[i].path = p =>
                   /\ obs.results[i].chunk \in 1..Len(used.chunks)
                   /\ obs.results[i].score =
                        scoreChunk(extractKeywords(obs.query),
                                   used.chunks[obs.results[i].chunk])
            /\ (cacheFile.kind = "valid" /\ HasEntry(cacheFile.cache, p)) =>
                 Entry(cacheFile.cache, p) = used

\* A search found one document changed since it was cached and the other
\* one unchanged, and returned chunks of both.
C31_Witness ==
  /\ obs.op = "search" /\ obs.scanned
  /\ \A p \in Paths : ReadablePath(p) /\ HasEntry(LoadedCache, p)
  /\ StaleIn(LoadedCache, PathOrder[1]) /\ ~StaleIn(LoadedCache, PathOrder[2])
  /\ \A p \in Paths : \E i \in 1..Len(obs.results) : obs.results[i].path = p

\* The cache file holds an entry only for documents the corpus has.
OnlyCorpusEntries ==
  cacheFile.kind = "valid" =>
    /\ \A p \in Paths : HasEntry(cacheFile.cache, p) => Exists(corpus.files[p])
    /\ cacheFile.cache.bulk <= corpus.bulk

\* C32: after every warmup and every search for a query with a keyword, the
\* cache file holds no entry for a document that the scan of that call did
\* not return, also when the scan returned fewer documents than before or
\* none.
C32_PrunedAfterEveryCall ==
  (obs.op = "warm" \/ KeywordSearch) => OnlyCorpusEntries

\* The injection sections of the dated document that carry marker m.
SectionsWith(m) ==
  Cardinality({ i \in 1..Len(daily) : daily[i].k = "inj" /\ daily[i].marker = m })

\* C33: after any sequence of startup, new/reset and turn events of any of
\* the sessions, the dated document has at most one injection section per
\* session marker.
C33_OneSectionPerMarker ==
  \A s \in SessionKeys : SectionsWith(escapeMarker(s)) <= 1

\* Two sessions have a section each, the second written after a new/reset
\* of its session and a further first message.
C33_Witness ==
  /\ last.op = "turn" /\ last.injected > 0
  /\ Cardinality({ escapeMarker(s) : s \in SessionKeys }
                   \cap { daily[i].marker : i \in 1..Len(daily) }) >= 2
  /\ HasKind(daily, "digest")

\* C34: whenever the maintenance state on disk has pendingConsent set, the
\* dated document holds the maintenance notice.
C34_PendingImpliesNotice ==
  mstate.pendingConsent => HasKind(daily, "maint")

\* C35: a turn that directly follows the startup or new/reset event which
\* appended the notice finds, as latest user message of its session, one
\* written before the state became pending, and so never runs the
\* optimization.
C35_NoConsentFromEarlierMessage ==
  (last.op = "turn" /\ last.afterPrompt) => ~last.optRan

\* C36: when a turn has run the optimization to its end and saved the idle
\* state, neither MEMORY.md nor the dated document is over its threshold,
\* so that the next lifecycle check finds nothing to prompt for.
C36_OptimizationEndsBloat ==
  (last.op = "turn" /\ last.optRan /\ ~last.optThrew /\ ~mstate.pendingConsent) =>
    ~getMemoryMaintenanceSignals(core, daily).anyBloated

\* C37: in every maintenance state on disk, pendingConsent does not hold
\* together with a snooze deadline that lies in the future.
C37_PendingExcludesSnooze ==
  ~(mstate.pendingConsent /\ mstate.snoozeUntil > now)

\* The state is pending again after a decline whose snooze has run out.
C37_Witness ==
  /\ mstate.pendingConsent
  /\ mstate.declinedAt > 0
  /\ mstate.snoozeUntil > 0 /\ mstate.snoozeUntil <= now

\* Position p of text lies inside a section: after a start marker, with an
\* end marker of the same kind still to come and none in between.
InsideSection(text, p) ==
  \E k \in { << SessionStart, SessionEnd >>,
             << STARTUP_DIGEST_MARKER_START, STARTUP_DIGEST_MARKER_END >>,
             << MAINTENANCE_MARKER, MAINTENANCE_END_MARKER >> } :
    \E i \in 1..(p - 1), j \in (p + 1)..Len(text) :
      /\ text[i] = k[1] /\ text[j] = k[2]
      /\ \A x \in i..p : text[x] # k[2]

\* The pieces of user text outside every section, in order.
OutsideText(text) ==
  LET idx == { p \in 1..Len(text) : text[p] \in UserTokens /\ ~InsideSection(text, p) }
      Nth(n) == CHOOSE p \in idx : Cardinality({ q \in idx : q < p }) = n - 1
  IN  [n \in 1..Cardinality(idx) |-> text[Nth(n)]]

\* C38: what compaction and the removal of the notice return holds the
\* pieces of text that were outside every injection, digest and maintenance
\* section, all of them, in their order, and no other text outside a
\* section.
C38_TextOutsideSectionsKept ==
  (direct.done /\ direct.fn \in { "compactDailyMemoryForStartup",
                                  "clearMaintenancePromptFromDaily" }) =>
    OutsideText(direct.result) = OutsideText(direct.args)

\* A document with user text before, between and after sections, one of
\* them the notice, was compacted.
C38_Witness ==
  /\ direct.done /\ direct.fn = "compactDailyMemoryForStartup"
  /\ direct.result # direct.args
  /\ OutsideText(direct.args) = << "U1", "U2" >>
  /\ IndexOf(direct.args, MAINTENANCE_MARKER) > 0
  /\ IndexOf(direct.args, "U3") > 0
  /\ IndexOf(direct.result, "U3") = 0

\* C39: with enableAdaptiveMemory false no startup, new/reset or turn event
\* changes the dated document, the core document or the archive, and the
\* injection entry point answers "disabled" whenever it is called.
C39_DisabledChangesNothing ==
  last.op \in { "startup", "newreset", "turn" } =>
    /\ daily = last.pre.daily
    /\ core = last.pre.core
    /\ archive = last.pre.archive
    /\ last.outcome \in { "not_called", "disabled" }

\* The positions of the paragraphs of text that are not blank, in order.
TextParagraphs(text) ==
  LET idx == { j \in 1..Len(text) : ~text[j].blank }
      Nth(n) == CHOOSE j \in idx : Cardinality({ q \in idx : q < j }) = n - 1
  IN  [n \in 1..Cardinality(idx) |-> Nth(n)]

RECURSIVE ParagraphsBefore(_, _)
ParagraphsBefore(chunks, i) ==
  IF i <= 1 THEN 0 ELSE chunks[i - 1].n + ParagraphsBefore(chunks, i - 1)

RECURSIVE SpanLength(_, _, _)
SpanLength(text, from, to) ==
  IF from > to THEN 0
  ELSE IF from = to THEN text[from].len
  ELSE text[from].len + 2 + SpanLength(text, from + 1, to)

\* C40: when a text yields fewer than 200 chunks, the chunks divide its
\* non-blank paragraphs among them in order: the i-th chunk is joined from
\* the next paragraphs after those of the chunks before it, is exactly as
\* long as the text from the first of them to the last, and together the
\* chunks take every paragraph.
C40_EveryParagraphInOneChunk ==
  (Returned("splitIntoChunks") /\ Len(direct.result) < MAX_CHUNKS_PER_FILE) =>
    LET ps == TextParagraphs(direct.args)
        chunks == direct.result
    IN  /\ ParagraphsBefore(chunks, Len(chunks) + 1) = Len(ps)
        /\ \A i \in 1..Len(chunks) :
              LET from == ParagraphsBefore(chunks, i) + 1
                  to   == ParagraphsBefore(chunks, i + 1)
              IN  /\ chunks[i].n >= 1
                  /\ to <= Len(ps)
                  /\ chunks[i].len = SpanLength(direct.args, ps[from], ps[to])

\* A text of two paragraphs with a paragraph of whitespace between them came
\* back as one chunk joined across the blank paragraph.
C40_Witness ==
  /\ Returned("splitIntoChunks")
  /\ Len(direct.args) = MaxParas
  /\ Len(TextParagraphs(direct.args)) = MaxParas - 1
  /\ Len(direct.result) = 1
  /\ direct.result[1].n = 2
  /\ \E j \in 2..(Len(direct.args) - 1) : direct.args[j].blank


====
